---- MODULE Spec2Model ----
(***************************************************************************)
(* A model of the astrbot_lark_enhance plugin: the per-group memory store  *)
(* (stores/user_memory_store.py), the debounced group history              *)
(* (mixins/history.py, handlers/events.py) and the emoji reaction tool     *)
(* (handlers/tools.py).                                                    *)
(*                                                                         *)
(* Python strings whose characters matter (group ids, memory contents,     *)
(* delete targets) are sequences of one-character strings; strings that    *)
(* are only compared for equality (memory types, user ids, message ids)    *)
(* are TLA+ strings.  time.time() is the variable now: every handler reads *)
(* it once, and between two handlers it may stay the same (a coarse or     *)
(* stepped clock) or advance.                                              *)
(***************************************************************************)
EXTENDS Integers, Sequences, FiniteSets, TLC

VARIABLES
    now,        \* the value time.time() returns
    config,     \* plugin.config: the keys the modelled handlers read
    cache,      \* UserMemoryStore._cache, oldest entry first
    files,      \* the files of <data_dir>/user_memory, by file name
    nextId,     \* stands for uuid.uuid4(): the next fresh memory id
    origin,     \* origin[id]: the group and user whose call created memory id
    last,       \* the store call that ran last, with what it returned
    ops,        \* number of calls and events so far
    group_history,      \* plugin.group_history: per group a deque
    _history_maxlen,    \* plugin._history_maxlen
    _last_save_time,    \* plugin._last_save_time
    _pending_save,      \* plugin._pending_save
    history_file,       \* <data_dir>/group_history.json
    appended,   \* per group, every record appended since the last clear
    written_at, \* when the history file was last written with success, -1: never
    saves,      \* the _save_history calls of the handler that ran last
    event,      \* the event the last handler ran for
    nextMsg,    \* the next fresh message id
    _reacted_messages,  \* plugin._reacted_messages, oldest key first
    inflight,   \* lark_emoji_reply calls awaiting the reaction API
    reactions,  \* per message id, the reaction-create requests that succeeded
    overlapped, \* some lark_emoji_reply call started while another was awaiting
    emoji_ret,  \* what the lark_emoji_reply call that ended last returned
    user_cache,         \* plugin.user_cache, oldest position first
    group_info_cache,   \* plugin.group_info_cache
    _group_info_cache_time,     \* plugin._group_info_cache_time
    group_members_cache,        \* plugin.group_members_cache
    _group_members_cache_time,  \* plugin._group_members_cache_time
    _mention_pattern_cache,     \* plugin._mention_pattern_cache
    stored_at,  \* per cache and key, when the value it holds was stored, and the value
    uc_order,   \* per open_id, when it was inserted and when it was last inserted or served
    lookup,     \* the cache call that ran last, with what it returned
    stream_pc,      \* where patched_send_streaming stands: idle, streaming, returned
    streaming_card, \* the LarkStreamingCard of the stream
    full_content,   \* the text patched_send_streaming has accumulated
    requests,       \* the requests sent to the message API, in order, with their outcome
    calls,          \* the calls patched_send_streaming made, in order, with what they returned
    received,       \* the chains the generator has yielded, in order
    injected,       \* what on_llm_request last put into the prompt as history
    decorated       \* the chain on_decorating_result last converted, before and after

memvars == <<cache, files, nextId, origin, last>>
histvars == <<group_history, _history_maxlen, _last_save_time, _pending_save,
              history_file, appended, written_at, saves, event, nextMsg>>
emojivars == <<_reacted_messages, inflight, reactions, overlapped, emoji_ret>>
ctxvars == <<user_cache, group_info_cache, _group_info_cache_time, group_members_cache,
             _group_members_cache_time, _mention_pattern_cache, stored_at, uc_order, lookup>>
streamvars == <<stream_pc, streaming_card, full_content, requests, calls, received>>
outvars == <<injected, decorated>>
vars == <<now, config, ops, memvars, histvars, emojivars, ctxvars, streamvars, outvars>>

-----------------------------------------------------------------------------
(* Bounds *)

\* calls per behaviour that starts with an empty data directory
MaxOps == 3
\* calls per behaviour that starts with memory files of an earlier run
MaxStoreOps == 1
\* stands for _CACHE_MAX_SIZE (100 in the source), scaled down so that
\* evictions happen
CacheMaxSize == 1

-----------------------------------------------------------------------------
(* Input universes *)

Users == {"u1", "u2"}
\* "a/b" and "a_b" are different group ids with the same file name
Groups == {<<"a", "/", "b">>, <<"a", "_", "b">>}
None == "None"
all == <<"a", "l", "l">>
\* the outcomes of open(file_path, "w") followed by json.dump
WriteOutcomes == {"ok", "open_fails", "dump_fails"}
\* message ids the emoji tool is called for
Messages == {"m1", "m2", "m3"}

-----------------------------------------------------------------------------
(* The plugin's other state right after __init__ found no history file;    *)
(* the specifications of one part leave the other parts in it              *)

no_history == [g \in Groups |-> [present |-> FALSE, items |-> <<>>, maxlen |-> 0]]
no_records == [g \in Groups |-> <<>>]
NoEvent == [op |-> "init", g |-> <<>>, lark |-> FALSE, reset |-> FALSE,
            text |-> FALSE, w |-> "ok"]

HistoryUnused ==
    /\ group_history = no_history
    /\ _history_maxlen = 20
    /\ _last_save_time = 0
    /\ _pending_save = FALSE
    /\ history_file = [kind |-> "absent", data |-> no_records]
    /\ appended = no_records
    /\ written_at = -1
    /\ saves = <<>>
    /\ event = NoEvent
    /\ nextMsg = 1

EmojiUnused ==
    /\ _reacted_messages = <<>>
    /\ inflight = <<>>
    /\ reactions = [m \in Messages |-> 0]
    /\ overlapped = FALSE
    /\ emoji_ret = "init"

\* chats whose info and members are looked up, open_ids and nicknames
Chats == {"c1", "c2"}
OpenIds == {"o1", "o2", "o3", "o4"}
Nicknames == {<<"a">>, <<"a", "b">>}
\* cached values are sequences (a nickname, a <<name, description>> pair, a
\* members map, a pattern); NoValue stands for Python's None
NoValue == <<>>

never_stored == [at |-> -1, value |-> NoValue]
no_entry == [present |-> FALSE, value |-> NoValue]
NoLookup == [op |-> "init", key |-> None, ret |-> NoValue, hit |-> FALSE, evicted |-> <<>>]

ContextUnused ==
    /\ user_cache = <<>>
    /\ group_info_cache = [c \in Chats |-> no_entry]
    /\ _group_info_cache_time = [c \in Chats |-> no_entry]
    /\ group_members_cache = [c \in Chats |-> no_entry]
    /\ _group_members_cache_time = [c \in Chats |-> no_entry]
    /\ _mention_pattern_cache = [c \in Chats |-> no_entry]
    /\ stored_at = [user |-> [o \in OpenIds |-> never_stored],
                    info |-> [c \in Chats |-> never_stored],
                    members |-> [c \in Chats |-> never_stored],
                    pattern |-> [c \in Chats |-> never_stored]]
    /\ uc_order = [tick |-> 0,
                   inserted |-> [o \in OpenIds |-> 0],
                   used |-> [o \in OpenIds |-> 0]]
    /\ lookup = NoLookup

\* LarkStreamingCard before it is constructed, and as __init__ leaves it
NoCard == [constructed |-> FALSE, card_message_id |-> None, _content_buffer |-> <<>>,
           _last_update_time |-> 0, _last_update_length |-> 0]
LarkStreamingCard == [NoCard EXCEPT !.constructed = TRUE]

StreamUnused ==
    /\ stream_pc = "idle"
    /\ streaming_card = NoCard
    /\ full_content = <<>>
    /\ requests = <<>>
    /\ calls = <<>>
    /\ received = <<>>

NoInjection == [done |-> FALSE, at |-> 0, g |-> <<>>, msg_id |-> None, lines |-> <<>>]
NoDecoration == [done |-> FALSE, converted |-> FALSE, before |-> <<>>, parts |-> <<>>,
                 after |-> <<>>, members_map |-> <<>>]

OutputsUnused ==
    /\ injected = NoInjection
    /\ decorated = NoDecoration

-----------------------------------------------------------------------------
(* Python string and list primitives *)

lower_char(ch) == CASE ch = "A" -> "a" [] ch = "B" -> "b" [] OTHER -> ch

\* str.lower()
lower(s) == [i \in 1..Len(s) |-> lower_char(s[i])]

\* needle in hay
str_in(needle, hay) ==
    \E i \in 0..(Len(hay) - Len(needle)) :
        SubSeq(hay, i + 1, i + Len(needle)) = needle

\* str.replace for one-character patterns
replace(s, old, new) == [i \in 1..Len(s) |-> IF s[i] = old THEN new ELSE s[i]]

\* seq[:n] for n >= 0
Take(seq, n) == SubSeq(seq, 1, IF n < Len(seq) THEN n ELSE Len(seq))

\* [x for x in seq if P(x)]
RECURSIVE SelectIdx(_, _)
SelectIdx(seq, keep) ==
    IF seq = <<>> THEN <<>>
    ELSE (IF keep[1] THEN <<seq[1]>> ELSE <<>>)
         \o SelectIdx(Tail(seq), Tail(keep))

remove_at(seq, i) == SubSeq(seq, 1, i - 1) \o SubSeq(seq, i + 1, Len(seq))

\* lexicographic < on pairs of integers (Python tuple comparison)
key_less(k, l) == k[1] < l[1] \/ (k[1] = l[1] /\ k[2] < l[2])

\* insert x into a sorted sequence behind every element whose key is not
\* greater: what a stable sort does with the elements in list order
RECURSIVE insert_stable(_, _, _, _)
insert_stable(sorted, keys, x, k) ==
    IF sorted = <<>> THEN <<x>>
    ELSE IF key_less(k, keys[1]) THEN <<x>> \o sorted
    ELSE <<sorted[1]>> \o insert_stable(Tail(sorted), Tail(keys), x, k)

\* sorted(seq, key=...): stable, ascending; keys[i] is the key of seq[i]
RECURSIVE stable_sort(_, _)
stable_sort(seq, keys) ==
    IF seq = <<>> THEN <<>>
    ELSE LET n == Len(seq)
             front == stable_sort(SubSeq(seq, 1, n - 1), SubSeq(keys, 1, n - 1))
             fkeys == stable_sort(SubSeq(keys, 1, n - 1), SubSeq(keys, 1, n - 1))
         IN insert_stable(front, fkeys, seq[n], keys[n])

-----------------------------------------------------------------------------
(* UserMemoryStore *)

TYPE_PRIORITY == [instruction |-> 0, preference |-> 1, fact |-> 2, meme |-> 3]

MemoryTypes == DOMAIN TYPE_PRIORITY

\* _get_file_path: the file name of a group
_get_file_path(group_id) == replace(replace(group_id, "/", "_"), "\\", "_")

FileNames == {_get_file_path(g) : g \in Groups}

no_user == [present |-> FALSE, memories |-> <<>>]

\* {"group_id": group_id, "users": {}, "updated_at": time.time()}
new_group_data(group_id, t) ==
    [group_id |-> group_id,
     users |-> [u \in Users |-> no_user],
     has_group_memories |-> FALSE,
     group_memories |-> <<>>,
     updated_at |-> t]

NoData == new_group_data(<<>>, 0)

in_cache(c, g) == \E i \in 1..Len(c) : c[i].gid = g

cache_index(c, g) == CHOOSE i \in 1..Len(c) : c[i].gid = g

\* _set_cache
_set_cache(c, g, data) ==
    LET c1 == IF in_cache(c, g) THEN remove_at(c, cache_index(c, g)) ELSE c
        pop == IF Len(c1) >= CacheMaxSize THEN Len(c1) - CacheMaxSize + 1 ELSE 0
    IN Append(SubSeq(c1, pop + 1, Len(c1)), [gid |-> g, data |-> data])

\* _load_group_data: the cache afterwards; the data returned is its last entry
_load_group_data(c, f, g, t) ==
    IF in_cache(c, g)
    THEN LET i == cache_index(c, g) IN Append(remove_at(c, i), c[i])
    ELSE LET file == f[_get_file_path(g)] IN
         IF file.kind = "json"
         THEN _set_cache(c, g, file.data)
         ELSE _set_cache(c, g, new_group_data(g, t))

\* what open(file_path, "w") and json.dump leave in the file
written_file(old, data, w) ==
    CASE w = "ok" -> [kind |-> "json", data |-> data]
      [] w = "open_fails" -> old
      [] OTHER -> [kind |-> "corrupt", data |-> NoData]

\* _save_group_data: <<cache, files>> afterwards
_save_group_data(c, f, g, t, w) ==
    IF ~in_cache(c, g) THEN <<c, f>>
    ELSE LET i == cache_index(c, g)
             data == [c[i].data EXCEPT !.updated_at = t]
             fp == _get_file_path(g)
         IN <<[c EXCEPT ![i].data = data],
              [f EXCEPT ![fp] = written_file(f[fp], data, w)]>>

\* a variant of the deduplication test that forgets the type
same_content_any_type(mem, memory_type, content) ==
    str_in(content, mem.content) \/ str_in(mem.content, content)

\* the test of the deduplication loop (add_memory, add_group_memory)
same_memory(mem, memory_type, content) ==
    /\ mem.type = memory_type
    /\ (str_in(content, mem.content) \/ str_in(mem.content, content))

\* index of the memory the loop updates, 0 when it finds none
first_match(memories, memory_type, content) ==
    LET hits == {i \in 1..Len(memories) : same_memory(memories[i], memory_type, content)}
    IN IF hits = {} THEN 0 ELSE CHOOSE i \in hits : \A j \in hits : i <= j

\* memories.sort(key=lambda x: x["updated_at"], reverse=True): stable
sort_newest_first(memories) ==
    stable_sort(memories, [i \in 1..Len(memories) |-> <<0 - memories[i].updated_at, 0>>])

\* a variant of the cap that cuts the list without sorting it
cap_in_list_order(memories, cap) == Take(memories, cap)

\* the cap of add_memory / add_group_memory
enforce_cap(memories, cap) ==
    IF Len(memories) > cap THEN Take(sort_newest_first(memories), cap) ELSE memories

\* the memory list after the body of add_memory / add_group_memory
added(memories, memory_type, content, cap, id, t) ==
    LET k == first_match(memories, memory_type, content) IN
    IF k > 0
    THEN [memories EXCEPT ![k].content = content, ![k].updated_at = t]
    ELSE enforce_cap(
             Append(memories,
                    [id |-> id, type |-> memory_type, content |-> content,
                     created_at |-> t, updated_at |-> t]),
             cap)

\* a result of a store call
result(c, f, id, ret) == [cache |-> c, files |-> f, nextId |-> id, ret |-> ret]

\* add_memory
add_memory(c, f, id, g, u, memory_type, content, cap, t, w) ==
    IF memory_type \notin MemoryTypes THEN result(c, f, id, FALSE)
    ELSE LET c1 == _load_group_data(c, f, g, t)
             n == Len(c1)
             memories == c1[n].data.users[u].memories
             inserts == first_match(memories, memory_type, content) = 0
             mems == added(memories, memory_type, content, cap, id, t)
             c2 == [c1 EXCEPT ![n].data.users[u] = [present |-> TRUE, memories |-> mems]]
             saved == _save_group_data(c2, f, g, t, w)
         IN result(saved[1], saved[2], IF inserts THEN id + 1 ELSE id, TRUE)

\* add_group_memory
add_group_memory(c, f, id, g, memory_type, content, cap, t, w) ==
    IF memory_type \notin MemoryTypes THEN result(c, f, id, FALSE)
    ELSE LET c1 == _load_group_data(c, f, g, t)
             n == Len(c1)
             memories == c1[n].data.group_memories
             inserts == first_match(memories, memory_type, content) = 0
             mems == added(memories, memory_type, content, cap, id, t)
             c2 == [c1 EXCEPT ![n].data.has_group_memories = TRUE,
                              ![n].data.group_memories = mems]
             saved == _save_group_data(c2, f, g, t, w)
         IN result(saved[1], saved[2], IF inserts THEN id + 1 ELSE id, TRUE)

\* [m for m in memories if m.get("type") == memory_type], or all of them
\* when memory_type is None
of_type(memories, memory_type) ==
    IF memory_type = None THEN memories
    ELSE SelectIdx(memories, [i \in 1..Len(memories) |-> memories[i].type = memory_type])

not_of_type(memories, memory_type) ==
    SelectIdx(memories, [i \in 1..Len(memories) |-> memories[i].type # memory_type])

\* a variant of the sort key that puts the oldest first within a type
priority_key_oldest_first(mem) == <<TYPE_PRIORITY[mem.type], mem.updated_at>>

\* the sort key of get_memories / get_group_memories
priority_key(mem) == <<TYPE_PRIORITY[mem.type], 0 - mem.updated_at>>

\* the list get_memories / get_group_memories returns from memories
sorted_memories(memories, limit, memory_type) ==
    LET sel == of_type(memories, memory_type)
    IN Take(stable_sort(sel, [i \in 1..Len(sel) |-> priority_key(sel[i])]), limit)

\* get_memories
get_memories(c, f, id, g, u, limit, memory_type, t) ==
    LET c1 == _load_group_data(c, f, g, t)
        ud == c1[Len(c1)].data.users[u]
    IN result(c1, f, id,
              IF ~ud.present THEN <<>>
              ELSE sorted_memories(ud.memories, limit, memory_type))

\* get_group_memories
get_group_memories(c, f, id, g, limit, memory_type, t) ==
    LET c1 == _load_group_data(c, f, g, t)
        data == c1[Len(c1)].data
    IN result(c1, f, id,
              IF ~data.has_group_memories THEN <<>>
              ELSE sorted_memories(data.group_memories, limit, memory_type))

\* a variant of the keyword test that compares case-sensitively
is_target_exact_case(mem, target) == str_in(target, mem.content)

\* the test of the keyword deletion
is_target(mem, target) == str_in(lower(target), lower(mem.content))

\* the list delete_memories / delete_group_memories leaves, and the count
deleted(all_memories, target, memory_type) ==
    LET memories == of_type(all_memories, memory_type)
        kept == SelectIdx(memories,
                    [i \in 1..Len(memories) |-> ~is_target(memories[i], target)])
    IN IF target = all
       THEN [memories |-> IF memory_type # None
                          THEN not_of_type(all_memories, memory_type)
                          ELSE <<>>,
             count |-> Len(memories)]
       ELSE [memories |-> IF memory_type # None
                          THEN not_of_type(all_memories, memory_type) \o kept
                          ELSE kept,
             count |-> Len(memories) - Len(kept)]

\* delete_memories
delete_memories(c, f, id, g, u, target, memory_type, t, w) ==
    LET c1 == _load_group_data(c, f, g, t)
        n == Len(c1)
        ud == c1[n].data.users[u]
    IN IF ~ud.present THEN result(c1, f, id, 0)
       ELSE LET d == deleted(ud.memories, target, memory_type)
                c2 == [c1 EXCEPT ![n].data.users[u].memories = d.memories]
                saved == IF d.count > 0 THEN _save_group_data(c2, f, g, t, w)
                         ELSE <<c2, f>>
            IN result(saved[1], saved[2], id, d.count)

\* delete_group_memories
delete_group_memories(c, f, id, g, target, memory_type, t, w) ==
    LET c1 == _load_group_data(c, f, g, t)
        n == Len(c1)
        data == c1[n].data
    IN IF ~data.has_group_memories THEN result(c1, f, id, 0)
       ELSE LET d == deleted(data.group_memories, target, memory_type)
                c2 == [c1 EXCEPT ![n].data.group_memories = d.memories]
                saved == IF d.count > 0 THEN _save_group_data(c2, f, g, t, w)
                         ELSE <<c2, f>>
            IN result(saved[1], saved[2], id, d.count)

-----------------------------------------------------------------------------------------------------------------------------------------------------
(* The calls as actions *)

\* the data _load_group_data(g) would hand out in this state
loaded(c, f, g) ==
    IF in_cache(c, g) THEN c[cache_index(c, g)].data
    ELSE LET file == f[_get_file_path(g)] IN
         IF file.kind = "json" THEN file.data ELSE new_group_data(g, 0)

View(g) == loaded(cache, files, g)

Call(op, g, u, t, c, lim, ret) ==
    [op |-> op, g |-> g, u |-> u, t |-> t, c |-> c, lim |-> lim, ret |-> ret]

\* a call returns: the store it leaves, the value it returned
Commit(r, call) ==
    /\ cache' = r.cache
    /\ files' = r.files
    /\ nextId' = r.nextId
    /\ origin' = IF r.nextId > nextId
                 THEN Append(origin, [g |-> call.g, u |-> call.u])
                 ELSE origin
    /\ last' = [call EXCEPT !.ret = r.ret]
    /\ ops' = ops + 1
    /\ UNCHANGED <<config, histvars, emojivars, ctxvars, streamvars, outvars>>

\* dt: what time.time() has advanced by since the call before
AddMemory(g, u, memory_type, content, w, dt) ==
    /\ now' = now + dt
    /\ Commit(add_memory(cache, files, nextId, g, u, memory_type, content,
                         config.memory_max_per_user, now', w),
              Call("add_memory", g, u, memory_type, content, 0, FALSE))

AddGroupMemory(g, memory_type, content, w, dt) ==
    /\ now' = now + dt
    /\ Commit(add_group_memory(cache, files, nextId, g, memory_type, content,
                               config.memory_max_per_group, now', w),
              Call("add_group_memory", g, "", memory_type, content, 0, FALSE))

GetMemories(g, u, limit, memory_type, dt) ==
    /\ now' = now + dt
    /\ Commit(get_memories(cache, files, nextId, g, u, limit, memory_type, now'),
              Call("get_memories", g, u, memory_type, <<>>, limit, <<>>))

GetGroupMemories(g, limit, memory_type, dt) ==
    /\ now' = now + dt
    /\ Commit(get_group_memories(cache, files, nextId, g, limit, memory_type, now'),
              Call("get_group_memories", g, "", memory_type, <<>>, limit, <<>>))

DeleteMemories(g, u, target, memory_type, w, dt) ==
    /\ now' = now + dt
    /\ Commit(delete_memories(cache, files, nextId, g, u, target, memory_type, now', w),
              Call("delete_memories", g, u, memory_type, target, 0, 0))

DeleteGroupMemories(g, target, memory_type, w, dt) ==
    /\ now' = now + dt
    /\ Commit(delete_group_memories(cache, files, nextId, g, target, memory_type, now', w),
              Call("delete_group_memories", g, "", memory_type, target, 0, 0))

NoCall == Call("init", <<>>, "", None, <<>>, 0, 0)

-----------------------------------------------------------------------------
(* SpecMem: the store from an empty data directory; two groups whose ids   *)
(* differ and whose file names are equal                                   *)

Init ==
    /\ now = 0
    /\ config = [memory_max_per_user |-> 2, memory_max_per_group |-> 2]
    /\ cache = <<>>
    /\ files = [fp \in FileNames |-> [kind |-> "absent", data |-> NoData]]
    /\ nextId = 1
    /\ origin = <<>>
    /\ last = NoCall
    /\ ops = 0
    /\ HistoryUnused
    /\ EmojiUnused
    /\ ContextUnused
    /\ StreamUnused
    /\ OutputsUnused

MemContents == {<<"a">>, <<"A">>}

NextMem ==
    \/ \E g \in Groups, u \in Users, c \in MemContents :
          ops < MaxOps /\ AddMemory(g, u, "fact", c, "ok", 1)
    \/ \E g \in Groups, c \in MemContents :
          ops < MaxOps /\ AddGroupMemory(g, "fact", c, "ok", 1)
    \/ \E g \in Groups, u \in Users :
          ops < MaxOps /\ GetMemories(g, u, 2, None, 1)
    \/ \E g \in Groups :
          ops < MaxOps /\ GetGroupMemories(g, 2, None, 1)
    \/ \E g \in Groups, u \in Users, target \in {all, <<"a">>} :
          ops < MaxOps /\ DeleteMemories(g, u, target, None, "ok", 1)
    \/ \E g \in Groups, target \in {all, <<"a">>} :
          ops < MaxOps /\ DeleteGroupMemories(g, target, None, "ok", 1)

SpecMem == Init /\ [][NextMem]_vars

\* what get_memories (by user) and get_group_memories return for group g,
\* whatever the limit and the type filter
Returned(g) ==
    LET data == View(g) IN
    [users |-> [u \in Users |->
                   IF data.users[u].present
                   THEN sorted_memories(data.users[u].memories,
                                        Len(data.users[u].memories), None)
                   ELSE <<>>],
     group |-> IF data.has_group_memories
               THEN sorted_memories(data.group_memories,
                                    Len(data.group_memories), None)
               ELSE <<>>]

\* C1: a call addressed to group g leaves what get_memories and
\* get_group_memories return for every other group id unchanged.
C1_GroupIsolation ==
    [][\A g \in Groups : g # last'.g => Returned(g)' = Returned(g)]_vars

Range(seq) == {seq[i] : i \in 1..Len(seq)}

\* C2: the personal memories listed for sender u in group g are memories
\* saved by u in g, and a personal delete issued by u in g removes only
\* memories saved by u in g.
C2_PersonalPrivate ==
    [][/\ \A g \in Groups, u \in Users :
            \A m \in Range(Returned(g).users[u])' :
                origin'[m.id] = [g |-> g, u |-> u]
       /\ last'.op = "delete_memories" =>
            \A g \in Groups, u \in Users :
                \A m \in Range(Returned(g).users[u]) \ Range(Returned(g).users[u])' :
                    origin[m.id] = [g |-> last'.g, u |-> last'.u]]_vars

-----------------------------------------------------------------------------
(* SpecAdd: add_memory and add_group_memory on one group, under every cap  *)
(* of Caps, with calls that may fall on the same clock value               *)

G1 == <<"a", "/", "b">>
Caps == {0, 1, 2}
AddContents == {<<"a">>, <<"A">>, <<"a", "A">>}

InitAdd ==
    /\ now = 0
    /\ \E cap \in Caps :
          config = [memory_max_per_user |-> cap, memory_max_per_group |-> cap]
    /\ cache = <<>>
    /\ files = [fp \in FileNames |-> [kind |-> "absent", data |-> NoData]]
    /\ nextId = 1
    /\ origin = <<>>
    /\ last = NoCall
    /\ ops = 0
    /\ HistoryUnused
    /\ EmojiUnused
    /\ ContextUnused
    /\ StreamUnused
    /\ OutputsUnused

NextAdd ==
    \/ \E c \in AddContents, dt \in {0, 1} :
          ops < MaxOps /\ AddMemory(G1, "u1", "fact", c, "ok", dt)
    \/ \E c \in AddContents, dt \in {0, 1} :
          ops < MaxOps /\ AddGroupMemory(G1, "fact", c, "ok", dt)
    \/ \E t \in {"meme", "other"} :
          ops < MaxOps /\ AddMemory(G1, "u1", t, <<"a">>, "ok", 1)
    \/ \E t \in {"meme", "other"} :
          ops < MaxOps /\ AddGroupMemory(G1, t, <<"a">>, "ok", 1)

SpecAdd == InitAdd /\ [][NextAdd]_vars

\* the memory list a call addressed (g, u) works on: a user's, or the
\* group's when the call is a group call
Scope(data, call) ==
    IF call.op \in {"add_group_memory", "get_group_memories", "delete_group_memories"}
    THEN data.group_memories
    ELSE data.users[call.u].memories

ScopeCap(call) ==
    IF call.op = "add_group_memory" THEN config.memory_max_per_group
    ELSE config.memory_max_per_user

Ids(memories) == {memories[i].id : i \in 1..Len(memories)}

\* the call that just ran inserted a new memory (it drew a fresh id)
Inserted == last'.op \in {"add_memory", "add_group_memory"} /\ nextId' = nextId + 1

\* after an insert: the list is within the cap, and nothing dropped is newer
\* than anything kept
CapKept ==
    LET before == Scope(View(last'.g), last')
        after == Scope(loaded(cache', files', last'.g), last')
    IN /\ Len(after) <= ScopeCap(last')
       /\ Ids(after) \subseteq Ids(before) \cup {nextId}
       /\ \A i \in 1..Len(before) :
             before[i].id \notin Ids(after) =>
                /\ before[i].updated_at <= now'
                /\ \A j \in 1..Len(after) : before[i].updated_at <= after[j].updated_at
       /\ nextId \notin Ids(after) =>
             \A j \in 1..Len(after) : now' <= after[j].updated_at

\* C3 as stated: after an insert the list holds at most cap memories, the
\* dropped ones are the oldest by updated_at, and the new memory is kept
\* whenever the cap is at least 1.
C3_CapKeepsNew ==
    [][Inserted =>
         /\ CapKept
         /\ ScopeCap(last') >= 1 => nextId \in Ids(Scope(loaded(cache', files', last'.g), last'))]_vars

\* C3 amended: after an insert the list holds at most cap memories, the
\* dropped ones are the oldest by updated_at, and the new memory is kept
\* whenever the cap is at least 1 and every memory already in the list has
\* a smaller updated_at than the new one.
C3_CapKeepsNewer ==
    [][Inserted =>
         /\ CapKept
         /\ (/\ ScopeCap(last') >= 1
             /\ \A i \in 1..Len(Scope(View(last'.g), last')) :
                   Scope(View(last'.g), last')[i].updated_at < now')
            => nextId \in Ids(Scope(loaded(cache', files', last'.g), last'))]_vars

\* an insert into a full list has dropped an older memory and kept the new one
C3_Witness ==
    /\ last.op = "add_memory"
    /\ config.memory_max_per_user >= 1
    /\ Len(Scope(View(last.g), last)) = config.memory_max_per_user
    /\ nextId - 1 \in Ids(Scope(View(last.g), last))
    /\ \E id \in 1..(nextId - 2) :
          /\ origin[id] = [g |-> last.g, u |-> last.u]
          /\ id \notin Ids(Scope(View(last.g), last))

\* C4: add_memory / add_group_memory with a valid type t and content c
\* updates exactly when a stored memory of the scope has type t and a content
\* that contains c or is contained in c: the first such memory gets content c
\* and updated_at now, nothing else changes; otherwise one new memory with
\* content c and type t is appended (and the cap then applies).
C4_UpdateOrInsert ==
    [][(/\ last'.op \in {"add_memory", "add_group_memory"}
        /\ last'.t \in {"instruction", "preference", "fact", "meme"}) =>
         LET before == Scope(View(last'.g), last')
             after == Scope(loaded(cache', files', last'.g), last')
             c == last'.c
             hits == {i \in 1..Len(before) :
                        /\ before[i].type = last'.t
                        /\ (str_in(c, before[i].content) \/ str_in(before[i].content, c))}
             new == [id |-> nextId, type |-> last'.t, content |-> c,
                     created_at |-> now', updated_at |-> now']
         IN IF hits # {}
            THEN LET k == CHOOSE i \in hits : \A j \in hits : i <= j IN
                 /\ nextId' = nextId
                 /\ Len(after) = Len(before)
                 /\ after[k] = [before[k] EXCEPT !.content = c, !.updated_at = now']
                 /\ \A i \in 1..Len(before) : i # k => after[i] = before[i]
            ELSE /\ nextId' = nextId + 1
                 /\ Len(before) < ScopeCap(last') => after = Append(before, new)
                 /\ \A j \in 1..Len(after) :
                       after[j] = new \/ \E i \in 1..Len(before) : after[j] = before[i]
                 /\ Cardinality({j \in 1..Len(after) : after[j].id = nextId}) <= 1]_vars

\* an update that had two candidates and took the first
C4_Witness ==
    LET l == Scope(View(last.g), last) IN
    /\ last.op = "add_group_memory"
    /\ Len(l) = 2
    /\ l[1].content = last.c /\ l[1].type = last.t /\ l[2].type = last.t
    /\ l[2].content # last.c /\ str_in(l[2].content, last.c)
    /\ l[1].created_at < l[1].updated_at /\ l[1].updated_at = now
    /\ nextId = 3

\* two memories of one list, of the same type, where the content of one holds
\* the content of the other
Redundant(memories) ==
    \E i, j \in 1..Len(memories) :
        /\ i # j
        /\ memories[i].type = memories[j].type
        /\ str_in(memories[i].content, memories[j].content)

\* C22: after any sequence of add_memory and add_group_memory calls, no
\* user's list and no group list holds two memories of the same type such that
\* the content of one contains the content of the other
C22_NoRedundantPair ==
    \A g \in Groups :
        /\ ~Redundant(View(g).group_memories)
        /\ \A u \in DOMAIN View(g).users : ~Redundant(View(g).users[u].memories)

-----------------------------------------------------------------------------
(* SpecGet and SpecDel: calls on the files an earlier run of the plugin    *)
(* left.  A stored list is one that add calls produce: distinct ids, valid *)
(* types, no two contents of one type inside each other.                   *)

SeedTime == 1
SeedLens == {0, 1, 2, 3}
ContentAt == <<(<<"a">>), (<<"b">>), (<<"A", "b">>)>>

memory(id, memory_type, content, t) ==
    [id |-> id, type |-> memory_type, content |-> content,
     created_at |-> 0, updated_at |-> t]

\* lists for the get calls: any type and any update time at each position
GetSeeds ==
    UNION {{[i \in 1..k |-> memory(i, s[i][1], ContentAt[i], s[i][2])] :
               s \in [1..k -> MemoryTypes \X (0..SeedTime)]} : k \in SeedLens}

\* lists for the delete calls: contents that differ in case, two types
DelSeeds ==
    UNION {{[i \in 1..k |-> memory(i, s[i][1], s[i][2], 0)] :
               s \in {q \in [1..k -> {"fact", "meme"} \X {<<"a">>, <<"A">>, <<"b">>}] :
                        \A i, j \in 1..k : i # j => q[i] # q[j]}} : k \in SeedLens}

\* what the other lists of the file hold
OtherList(id) == <<memory(id, "fact", <<"a">>, 0)>>

\* the file of G1 with u1's list and the group's list as given
seed_data(user_memories, group_memories) ==
    [group_id |-> G1,
     users |-> [u \in Users |->
                  [present |-> TRUE,
                   memories |-> IF u = "u1" THEN user_memories ELSE OtherList(9)]],
     has_group_memories |-> TRUE,
     group_memories |-> group_memories,
     updated_at |-> SeedTime]

InitStored(seeds) ==
    /\ now = SeedTime
    /\ config = [memory_max_per_user |-> 3, memory_max_per_group |-> 3]
    /\ cache = <<>>
    /\ \E l \in seeds :
          \E data \in {seed_data(l, OtherList(8)), seed_data(OtherList(7), l)} :
             files = [fp \in FileNames |->
                        IF fp = _get_file_path(G1)
                        THEN [kind |-> "json", data |-> data]
                        ELSE [kind |-> "absent", data |-> NoData]]
    /\ nextId = 10
    /\ origin = [id \in 1..9 |-> [g |-> G1, u |-> "u1"]]
    /\ last = NoCall
    /\ ops = 0
    /\ HistoryUnused
    /\ EmojiUnused
    /\ ContextUnused
    /\ StreamUnused
    /\ OutputsUnused

InitGet == InitStored(GetSeeds)

NextGet ==
    \/ \E limit \in 0..3, memory_type \in {None, "fact"} :
          ops < MaxStoreOps /\ GetMemories(G1, "u1", limit, memory_type, 1)
    \/ \E limit \in 0..3, memory_type \in {None, "fact"} :
          ops < MaxStoreOps /\ GetGroupMemories(G1, limit, memory_type, 1)

SpecGet == InitGet /\ [][NextGet]_vars

InitDel == InitStored(DelSeeds)

DelTargets == {all, <<"a">>, <<"B">>, <<"a", "b">>}

NextDel ==
    \/ \E target \in DelTargets, memory_type \in {None, "fact"} :
          ops < MaxStoreOps /\ DeleteMemories(G1, "u1", target, memory_type, "ok", 1)
    \/ \E target \in DelTargets, memory_type \in {None, "fact"} :
          ops < MaxStoreOps /\ DeleteGroupMemories(G1, target, memory_type, "ok", 1)
    \/ \E w \in {"open_fails", "dump_fails"} :
          ops < MaxStoreOps /\ DeleteMemories(G1, "u1", <<"a">>, None, w, 1)
    \/ \E w \in {"open_fails", "dump_fails"} :
          ops < MaxStoreOps /\ DeleteGroupMemories(G1, <<"a">>, None, w, 1)

SpecDel == InitDel /\ [][NextDel]_vars

\* the order of the returned list: by type, then newest first
TypeRank(memory_type) ==
    CASE memory_type = "instruction" -> 1
      [] memory_type = "preference" -> 2
      [] memory_type = "fact" -> 3
      [] memory_type = "meme" -> 4

SortsBefore(m1, m2) ==
    \/ TypeRank(m1.type) < TypeRank(m2.type)
    \/ m1.type = m2.type /\ m1.updated_at > m2.updated_at

\* C5: get_memories / get_group_memories return at most limit memories of
\* the stored list, ordered by type (instruction, preference, fact, meme) and
\* newest first within a type; with a type filter every returned memory has
\* that type; no memory left out sorts before a returned one.
C5_GetOrdered ==
    [][last'.op \in {"get_memories", "get_group_memories"} =>
         LET stored == Scope(View(last'.g), last')
             ret == last'.ret
             passes(m) == last'.t = None \/ m.type = last'.t
         IN /\ Len(ret) <= last'.lim
            /\ \A j \in 1..Len(ret) : ret[j] \in Range(stored) /\ passes(ret[j])
            /\ \A i, j \in 1..Len(ret) : i < j =>
                  ret[i].id # ret[j].id /\ ~SortsBefore(ret[j], ret[i])
            /\ \A m \in Range(stored) :
                  (passes(m) /\ m.id \notin Ids(ret)) =>
                     \A j \in 1..Len(ret) : ~SortsBefore(m, ret[j])
            /\ loaded(cache', files', last'.g) = View(last'.g)]_vars

\* a get that cut a list of three to two of one type, newest first, in
\* another order than the stored one
C5_Witness ==
    /\ last.op = "get_memories"
    /\ last.lim = 2 /\ Len(last.ret) = 2
    /\ Len(Scope(View(last.g), last)) = 3
    /\ last.ret[1].type = last.ret[2].type
    /\ last.ret[1].updated_at > last.ret[2].updated_at
    /\ last.ret[1].id > last.ret[2].id
    /\ SortsBefore(last.ret[2], Scope(View(last.g), last)[1])

\* the memories a delete call is to remove
Doomed(m, target, memory_type) ==
    /\ memory_type = None \/ m.type = memory_type
    /\ target = <<"a", "l", "l">> \/ str_in(lower(target), lower(m.content))

\* C6: delete_memories / delete_group_memories removes exactly the memories
\* of the addressed list that pass the type filter and have target "all" or
\* a content containing target case-insensitively, returns their number,
\* keeps every other memory of the list, the other users' lists and the other
\* scope; when the number is 0 the group's file is not rewritten.
C6_DeleteExact ==
    [][last'.op \in {"delete_memories", "delete_group_memories"} =>
         LET old == View(last'.g)
             new == loaded(cache', files', last'.g)
             before == Scope(old, last')
             after == Scope(new, last')
             gone == {i \in 1..Len(before) : Doomed(before[i], last'.c, last'.t)}
         IN /\ Range(after) = {before[i] : i \in (1..Len(before)) \ gone}
            /\ Len(after) = Len(before) - Cardinality(gone)
            /\ last'.ret = Cardinality(gone)
            /\ IF last'.op = "delete_memories"
               THEN /\ new.group_memories = old.group_memories
                    /\ \A u \in Users \ {last'.u} : new.users[u] = old.users[u]
               ELSE new.users = old.users
            /\ last'.ret = 0 => files' = files]_vars

\* a delete by keyword and type that removed two memories whose contents
\* differ in case from each other and left one of another type
C6_Witness ==
    LET l == Scope(View(last.g), last) IN
    /\ last.op = "delete_memories"
    /\ last.c = <<"a">> /\ last.t = "fact" /\ last.ret = 2
    /\ Len(l) = 1 /\ l[1].type = "meme" /\ l[1].content = <<"a">>
    /\ View(last.g).users["u2"].memories # <<>>
    /\ View(last.g).group_memories # <<>>

-----------------------------------------------------------------------------
(* The group history: mixins/history.py and the recording parts of         *)
(* handlers/events.py.  A handler works on h, the history fields of the    *)
(* plugin, and leaves in h.saves one entry per _save_history call it made. *)

_SAVE_DEBOUNCE == 5

\* events per behaviour of the history
MaxHistOps == 3

LastN(seq, n) ==
    IF Len(seq) <= n THEN seq ELSE SubSeq(seq, Len(seq) - n + 1, Len(seq))

\* deque(items, maxlen=maxlen)
deque(items, maxlen) ==
    [present |-> TRUE, items |-> LastN(items, maxlen), maxlen |-> maxlen]

\* a variant of append that refuses the record when the deque is full
append_unless_full(d, x) ==
    IF Len(d.items) >= d.maxlen THEN d ELSE [d EXCEPT !.items = Append(@, x)]

\* deque.append
deque_append(d, x) == [d EXCEPT !.items = LastN(Append(@, x), d.maxlen)]

\* the dict _save_history dumps: the groups that have records
dumped(gh) == [g \in Groups |-> IF gh[g].present THEN gh[g].items ELSE <<>>]

\* _load_history
_load_history(file, maxlen) ==
    IF file.kind = "json"
    THEN [g \in Groups |->
            IF file.data[g] # <<>> THEN deque(file.data[g], maxlen) ELSE no_history[g]]
    ELSE no_history

save_call(h, force, t, attempted, wrote) ==
    [force |-> force, at |-> t, attempted |-> attempted, wrote |-> wrote,
     data |-> dumped(h.gh), pending |-> h.pend]

\* a variant of the debounce test with a window one second shorter
debounced_shorter(h, force, t) == ~force /\ t - h.lst < _SAVE_DEBOUNCE - 1

\* the debounce test of _save_history
debounced(h, force, t) == ~force /\ t - h.lst < _SAVE_DEBOUNCE

\* a variant of _save_history that stamps the save even when the write fails
save_history_stamps_failure(h, force, t, w) ==
    IF debounced(h, force, t)
    THEN LET h1 == [h EXCEPT !.pend = TRUE]
         IN [h1 EXCEPT !.saves = Append(@, save_call(h1, force, t, FALSE, FALSE))]
    ELSE LET h1 == [h EXCEPT !.file = IF w = "ok" THEN [kind |-> "json", data |-> dumped(h.gh)]
                                      ELSE IF w = "open_fails" THEN @
                                      ELSE [kind |-> "corrupt", data |-> no_records],
                             !.lst = t,
                             !.pend = FALSE]
         IN [h1 EXCEPT !.saves = Append(@, save_call(h1, force, t, TRUE, w = "ok"))]

\* _save_history(force) at clock value t, the write ending as w
_save_history(h, force, t, w) ==
    IF debounced(h, force, t)
    THEN LET h1 == [h EXCEPT !.pend = TRUE]
         IN [h1 EXCEPT !.saves = Append(@, save_call(h1, force, t, FALSE, FALSE))]
    ELSE IF w = "ok"
    THEN LET h1 == [h EXCEPT !.file = [kind |-> "json", data |-> dumped(h.gh)],
                             !.lst = t,
                             !.pend = FALSE]
         IN [h1 EXCEPT !.saves = Append(@, save_call(h1, force, t, TRUE, TRUE))]
    ELSE LET h1 == [h EXCEPT !.file = IF w = "open_fails" THEN @
                                      ELSE [kind |-> "corrupt", data |-> no_records]]
         IN [h1 EXCEPT !.saves = Append(@, save_call(h1, force, t, TRUE, FALSE))]

\* a variant of the flush that does not force the save
flush_unforced(h, t, w) == IF h.pend THEN _save_history(h, FALSE, t, w) ELSE h

\* _flush_pending_save
_flush_pending_save(h, t, w) == IF h.pend THEN _save_history(h, TRUE, t, w) ELSE h

\* _ensure_history_deque; group_history is a defaultdict, so reading the
\* entry of a new group creates a deque of _history_maxlen
_ensure_history_deque(h, g, history_count) ==
    LET d == IF h.gh[g].present THEN h.gh[g] ELSE deque(<<>>, h.ml)
    IN IF d.maxlen # history_count
       THEN [h EXCEPT !.gh[g] = deque(d.items, history_count), !.ml = history_count]
       ELSE [h EXCEPT !.gh[g] = d]

\* _clear_history_for_session for the session of group g (<<>>: a private
\* chat, whose session id is no key of group_history)
_clear_history_for_session(h, g, t, w) ==
    IF g # <<>> /\ h.gh[g].present
    THEN _save_history([h EXCEPT !.gh[g].items = <<>>], TRUE, t, w)
    ELSE h

\* ensure the deque, append the record, save (not forced)
record(h, g, history_count, item, t, w) ==
    LET h1 == _ensure_history_deque(h, g, history_count)
    IN _save_history([h1 EXCEPT !.gh[g] = deque_append(@, item)], FALSE, t, w)

\* handle_on_message, its history part
handle_on_message(h, lark_client, g, history_count, text, item, t, w) ==
    IF ~lark_client THEN h
    ELSE IF g # <<>> /\ history_count > 0
    THEN IF text THEN record(h, g, history_count, item, t, w)
         ELSE _ensure_history_deque(h, g, history_count)
    ELSE h

\* handle_on_message_sent
handle_on_message_sent(h, is_lark, reset, g, history_count, text, item, t, w) ==
    IF ~is_lark THEN h
    ELSE LET h1 == _flush_pending_save(h, t, w)
             h2 == IF reset THEN _clear_history_for_session(h1, g, t, w) ELSE h1
         IN IF g = <<>> \/ history_count <= 0 THEN h2
            ELSE IF text THEN record(h2, g, history_count, item, t, w)
            ELSE _ensure_history_deque(h2, g, history_count)

\* _atexit_save
_atexit_save(h, t, w) ==
    IF h.pend \/ \E g \in Groups : h.gh[g].present
    THEN _save_history(h, TRUE, t, w)
    ELSE h

HistState ==
    [gh |-> group_history, ml |-> _history_maxlen, lst |-> _last_save_time,
     pend |-> _pending_save, file |-> history_file, saves |-> <<>>]

Event(op, g, lark, reset, text, w) ==
    [op |-> op, g |-> g, lark |-> lark, reset |-> reset, text |-> text, w |-> w]

\* a handler returns: the history fields it leaves
HistCommit(h, ev, log) ==
    /\ group_history' = h.gh
    /\ _history_maxlen' = h.ml
    /\ _last_save_time' = h.lst
    /\ _pending_save' = h.pend
    /\ history_file' = h.file
    /\ saves' = h.saves
    /\ written_at' =
          LET ws == {i \in 1..Len(h.saves) : h.saves[i].wrote}
          IN IF ws = {} THEN written_at
             ELSE h.saves[CHOOSE i \in ws : \A j \in ws : j <= i].at
    /\ event' = ev
    /\ appended' = log
    /\ ops' = ops + 1
    /\ UNCHANGED <<config, memvars, emojivars, ctxvars, streamvars, outvars>>

OnMessage(g, lark_client, text, w, dt) ==
    /\ event.op # "atexit"
    /\ now' = now + dt
    /\ nextMsg' = nextMsg + 1
    /\ LET item == [msg_id |-> <<"om", nextMsg>>, sender_id |-> "u1"]
           recorded == lark_client /\ g # <<>> /\ text /\ config.history_inject_count > 0
       IN HistCommit(handle_on_message(HistState, lark_client, g,
                                       config.history_inject_count, text, item, now', w),
                     Event("on_message", g, lark_client, FALSE, text, w),
                     IF recorded THEN [appended EXCEPT ![g] = Append(@, item)]
                     ELSE appended)

OnMessageSent(g, is_lark, reset, text, w, dt) ==
    /\ event.op # "atexit"
    /\ now' = now + dt
    /\ UNCHANGED nextMsg
    /\ LET item == [msg_id |-> <<"sent", now'>>, sender_id |-> "__bot__"]
           cleared == IF is_lark /\ reset /\ g # <<>>
                      THEN [appended EXCEPT ![g] = <<>>] ELSE appended
           recorded == is_lark /\ g # <<>> /\ text /\ config.history_inject_count > 0
       IN HistCommit(handle_on_message_sent(HistState, is_lark, reset, g,
                                            config.history_inject_count, text, item, now', w),
                     Event("on_message_sent", g, is_lark, reset, text, w),
                     IF recorded THEN [cleared EXCEPT ![g] = Append(@, item)]
                     ELSE cleared)

AtExit(w, dt) ==
    /\ event.op # "atexit"
    /\ now' = now + dt
    /\ UNCHANGED nextMsg
    /\ HistCommit(_atexit_save(HistState, now', w),
                  Event("atexit", <<>>, FALSE, FALSE, FALSE, w), appended)

\* the history file an earlier run left for G1
OldRecords ==
    [g \in Groups |->
        IF g = G1
        THEN <<[msg_id |-> <<"om", -3>>, sender_id |-> "u1"],
               [msg_id |-> <<"sent", -2>>, sender_id |-> "__bot__"],
               [msg_id |-> <<"om", -1>>, sender_id |-> "u2"]>>
        ELSE <<>>]

HistoryCounts == {1, 2}

\* Main.__init__: history_inject_count from the config, the history file
\* absent or left by an earlier run
InitHist ==
    /\ now = 2 * _SAVE_DEBOUNCE
    /\ \E history_count \in HistoryCounts :
          /\ config = [history_inject_count |-> history_count]
          /\ _history_maxlen = IF history_count = 0 THEN 20 ELSE history_count
    /\ history_file \in {[kind |-> "absent", data |-> no_records],
                         [kind |-> "json", data |-> OldRecords]}
    /\ group_history = _load_history(history_file, _history_maxlen)
    /\ appended = history_file.data
    /\ _last_save_time = 0
    /\ _pending_save = FALSE
    /\ written_at = -1
    /\ saves = <<>>
    /\ event = NoEvent
    /\ nextMsg = 1
    /\ cache = <<>>
    /\ files = [fp \in FileNames |-> [kind |-> "absent", data |-> NoData]]
    /\ nextId = 1
    /\ origin = <<>>
    /\ last = NoCall
    /\ ops = 0
    /\ EmojiUnused
    /\ ContextUnused
    /\ StreamUnused
    /\ OutputsUnused

NextHist ==
    \/ \E g \in Groups, dt \in {2, 5} :
          ops < MaxHistOps /\ OnMessage(g, TRUE, TRUE, "ok", dt)
    \/ \E g \in Groups, reset \in BOOLEAN, dt \in {2, 5} :
          ops < MaxHistOps /\ OnMessageSent(g, TRUE, reset, TRUE, "ok", dt)
    \/ \E w \in {"open_fails", "dump_fails"} :
          ops < MaxHistOps /\ OnMessage(G1, TRUE, TRUE, w, 5)
    \/ \E w \in {"open_fails", "dump_fails"} :
          ops < MaxHistOps /\ OnMessageSent(G1, TRUE, FALSE, TRUE, w, 2)
    \/ \E skip \in {<<G1, FALSE, TRUE>>, <<G1, TRUE, FALSE>>, <<(<<>>), TRUE, TRUE>>} :
          ops < MaxHistOps /\ OnMessage(skip[1], skip[2], skip[3], "ok", 2)
    \/ \E skip \in {<<G1, FALSE, TRUE>>, <<G1, TRUE, FALSE>>, <<(<<>>), TRUE, TRUE>>} :
          ops < MaxHistOps /\ OnMessageSent(skip[1], skip[2], FALSE, skip[3], "ok", 2)
    \/ \E w \in {"ok", "dump_fails"} :
          ops < MaxHistOps /\ AtExit(w, 2)

SpecHist == InitHist /\ [][NextHist]_vars

\* the records of group g in memory
Buffer(g) == IF group_history[g].present THEN group_history[g].items ELSE <<>>

WrittenBefore(i) ==
    LET ws == {j \in 1..(i - 1) : saves'[j].wrote}
    IN IF ws = {} THEN written_at
       ELSE saves'[CHOOSE j \in ws : \A k \in ws : k <= j].at

\* C8: a _save_history call that is not forced writes the file only if at
\* least _SAVE_DEBOUNCE (5) seconds have passed since the last successful
\* write; made earlier it performs no write and sets _pending_save.
C8_Debounce ==
    [][\A i \in 1..Len(saves') :
          (~saves'[i].force /\ WrittenBefore(i) >= 0) =>
             /\ saves'[i].wrote => saves'[i].at - WrittenBefore(i) >= 5
             /\ saves'[i].at - WrittenBefore(i) < 5 =>
                   ~saves'[i].attempted /\ saves'[i].pending]_vars

\* a save that came 4 seconds after a successful write was deferred
C8_Witness ==
    /\ Len(saves) = 1
    /\ ~saves[1].force /\ ~saves[1].attempted
    /\ written_at >= 0 /\ saves[1].at - written_at = 4
    /\ _pending_save

\* C9: when _pending_save is true, the next on_message_sent for a Lark
\* event first (through _flush_pending_save) rewrites the file with the
\* complete in-memory history and clears _pending_save, and so does the
\* atexit hook, provided the write succeeds; whatever the file holds after
\* the handler is a dump made at or after that flush.
C9_Flush ==
    [][(_pending_save /\ event'.w = "ok") =>
         /\ (event'.op = "on_message_sent" /\ event'.lark) =>
               /\ Len(saves') >= 1
               /\ saves'[1].force /\ saves'[1].wrote /\ ~saves'[1].pending
               /\ saves'[1].at = now'
               /\ saves'[1].data = [g \in Groups |-> Buffer(g)]
               /\ history_file'.kind = "json"
               /\ \E i \in 1..Len(saves') :
                     saves'[i].wrote /\ history_file'.data = saves'[i].data
               /\ _pending_save' => ~saves'[Len(saves')].force
         /\ event'.op = "atexit" =>
               /\ history_file' = [kind |-> "json", data |-> [g \in Groups |-> Buffer(g)]]
               /\ ~_pending_save'
               /\ group_history' = group_history]_vars

\* a deferred record reached the file through the flush of on_message_sent
C9_Witness ==
    /\ event.op = "on_message_sent" /\ event.lark /\ ~event.reset
    /\ Len(saves) = 2
    /\ saves[1].force /\ saves[1].wrote
    /\ \E g \in Groups :
          /\ Len(saves[1].data[g]) >= 1
          /\ saves[1].data[g][Len(saves[1].data[g])].msg_id[1] = "om"
          /\ history_file.data[g] = saves[1].data[g]
    /\ event.g # G1
    /\ written_at = now

-----------------------------------------------------------------------------
(* The emoji reaction tool: handle_lark_emoji_reply of handlers/tools.py.  *)
(* A call is suspended at "await ...message_reaction.acreate(request)", so *)
(* it takes two steps: up to the request, and from the response on.        *)

\* stands for the 1000 entries _reacted_messages is trimmed to, scaled down
MaxReacted == 2
\* steps per behaviour of the emoji tool
MaxEmojiOps == 8
\* calls that may await the API at the same time
MaxInflight == 2

\* plugin._reacted_messages[message_id] = True, then
\* while len(...) > 1000: popitem(last=False)
mark_reacted(reacted, message_id) ==
    LastN(IF message_id \in Range(reacted) THEN reacted ELSE Append(reacted, message_id),
          MaxReacted)

\* handle_lark_emoji_reply up to the await: what it returns, or "await"
emoji_reply_start(reacted, message_id, is_lark, lark_client, im) ==
    IF ~is_lark THEN "not lark"
    ELSE IF message_id \in Range(reacted) THEN "already reacted"
    ELSE IF ~lark_client THEN "no client"
    ELSE IF ~im THEN "not initialised"
    ELSE "await"

EmojiReply(message_id, is_lark, lark_client, im) ==
    LET ret == emoji_reply_start(_reacted_messages, message_id, is_lark, lark_client, im)
    IN /\ ret = "await" => Len(inflight) < MaxInflight
       /\ inflight' = IF ret = "await" THEN Append(inflight, message_id) ELSE inflight
       /\ overlapped' = (overlapped \/ (ret = "await" /\ inflight # <<>>))
       /\ emoji_ret' = IF ret = "await" THEN emoji_ret ELSE ret
       /\ ops' = ops + 1
       /\ UNCHANGED <<_reacted_messages, reactions, now, config, memvars, histvars, ctxvars,
                    streamvars, outvars>>

\* the response arrives for the i-th suspended call: response.success(),
\* a failure response, or an exception
EmojiResponse(i, outcome) ==
    /\ i \in 1..Len(inflight)
    /\ inflight' = remove_at(inflight, i)
    /\ IF outcome = "success"
       THEN /\ _reacted_messages' = mark_reacted(_reacted_messages, inflight[i])
            /\ reactions' = [reactions EXCEPT ![inflight[i]] = @ + 1]
            /\ emoji_ret' = None
       ELSE /\ emoji_ret' = "failed"
            /\ UNCHANGED <<_reacted_messages, reactions>>
    /\ ops' = ops + 1
    /\ UNCHANGED <<overlapped, now, config, memvars, histvars, ctxvars, streamvars, outvars>>

NextEmoji ==
    \/ \E message_id \in Messages :
          ops < MaxEmojiOps /\ EmojiReply(message_id, TRUE, TRUE, TRUE)
    \/ \E skip \in {<<FALSE, TRUE, TRUE>>, <<TRUE, FALSE, TRUE>>, <<TRUE, TRUE, FALSE>>} :
          ops < MaxEmojiOps /\ EmojiReply("m1", skip[1], skip[2], skip[3])
    \/ \E i \in 1..MaxInflight, outcome \in {"success", "failure", "exception"} :
          ops < MaxEmojiOps /\ EmojiResponse(i, outcome)

SpecEmoji == Init /\ [][NextEmoji]_vars

\* C10: each message gets at most one reaction from the plugin: as long as
\* no call has started while another one was awaiting the API, at most one
\* reaction-create request has succeeded for any message id.
C10_OneReaction ==
    ~overlapped => \A message_id \in Messages : reactions[message_id] <= 1

\* C19: of two calls for the same message id that run at the same time, the
\* second starting while the first awaits the API, at most one sends a
\* reaction-create request: no two requests for one message id are awaited
\* at once.
C19_OneRequestInFlight ==
    \A i, j \in 1..Len(inflight) : inflight[i] = inflight[j] => i = j

-----------------------------------------------------------------------------
(* The caches of mixins/lark_context.py and mixins/text.py: user_cache,    *)
(* group_info_cache, group_members_cache and _mention_pattern_cache.       *)

_CACHE_TTL == 300

\* stands for _USER_CACHE_MAX_SIZE (5000 in the source), scaled down so
\* that the cache overflows
UserCacheMaxSize == 2
\* calls per behaviour of the user cache
MaxUserOps == 4

\* a variant of the validity test that still accepts an entry at the TTL
is_cache_valid_at_ttl(cache_time, t) == t - cache_time <= _CACHE_TTL

\* _is_cache_valid at clock value t
_is_cache_valid(cache_time, t) == t - cache_time < _CACHE_TTL

CachedIds(uc) == {uc[i].open_id : i \in 1..Len(uc)}

uc_index(uc, open_id) == CHOOSE i \in 1..Len(uc) : uc[i].open_id = open_id

\* _get_user_from_cache: the cache it leaves, what it returns
_get_user_from_cache(uc, open_id, t) ==
    IF open_id \in CachedIds(uc)
    THEN LET i == uc_index(uc, open_id) IN
         IF _is_cache_valid(uc[i].cache_time, t)
         THEN [cache |-> Append(remove_at(uc, i), uc[i]), ret |-> uc[i].nickname]
         ELSE [cache |-> remove_at(uc, i), ret |-> NoValue]
    ELSE [cache |-> uc, ret |-> NoValue]

\* a variant of the insert that never evicts
set_user_cache_unbounded(uc, open_id, nickname, t) ==
    Append(IF open_id \in CachedIds(uc) THEN remove_at(uc, uc_index(uc, open_id)) ELSE uc,
           [open_id |-> open_id, nickname |-> nickname, cache_time |-> t])

\* a variant of the insert that evicts from the newest end
set_user_cache_drop_newest(uc, open_id, nickname, t) ==
    LET c1 == IF open_id \in CachedIds(uc) THEN remove_at(uc, uc_index(uc, open_id)) ELSE uc
    IN Append(Take(c1, UserCacheMaxSize - 1),
              [open_id |-> open_id, nickname |-> nickname, cache_time |-> t])

\* _set_user_cache
_set_user_cache(uc, open_id, nickname, t) ==
    LET c1 == IF open_id \in CachedIds(uc) THEN remove_at(uc, uc_index(uc, open_id)) ELSE uc
        c2 == LastN(c1, UserCacheMaxSize - 1)
    IN Append(c2, [open_id |-> open_id, nickname |-> nickname, cache_time |-> t])

\* the order bookkeeping after open_id was inserted (served: only used moves)
ticked(order, open_id, inserted) ==
    [tick |-> order.tick + 1,
     inserted |-> IF inserted THEN [order.inserted EXCEPT ![open_id] = order.tick + 1]
                  ELSE order.inserted,
     used |-> [order.used EXCEPT ![open_id] = order.tick + 1]]

Lookup(op, key, ret, hit, evicted) ==
    [op |-> op, key |-> key, ret |-> ret, hit |-> hit, evicted |-> evicted]

\* the open_ids of before that are gone in after, other than key
Evicted(before, after, key) ==
    SelectIdx([i \in 1..Len(before) |-> before[i].open_id],
              [i \in 1..Len(before) |->
                  before[i].open_id \notin CachedIds(after) /\ before[i].open_id # key])

SetUserCache(open_id, nickname, dt) ==
    /\ now' = now + dt
    /\ user_cache' = _set_user_cache(user_cache, open_id, nickname, now')
    /\ stored_at' = [stored_at EXCEPT !.user[open_id] = [at |-> now', value |-> nickname]]
    /\ uc_order' = ticked(uc_order, open_id, TRUE)
    /\ lookup' = Lookup("_set_user_cache", open_id, NoValue, FALSE,
                        Evicted(user_cache, user_cache', open_id))
    /\ ops' = ops + 1
    /\ UNCHANGED <<group_info_cache, _group_info_cache_time, group_members_cache,
                   _group_members_cache_time, _mention_pattern_cache>>
    /\ UNCHANGED <<config, memvars, histvars, emojivars, streamvars, outvars>>

GetUserFromCache(open_id, dt) ==
    /\ now' = now + dt
    /\ LET r == _get_user_from_cache(user_cache, open_id, now')
       IN /\ user_cache' = r.cache
          /\ uc_order' = IF r.ret # NoValue THEN ticked(uc_order, open_id, FALSE)
                         ELSE uc_order
          /\ lookup' = Lookup("_get_user_from_cache", open_id, r.ret, r.ret # NoValue, <<>>)
    /\ ops' = ops + 1
    /\ UNCHANGED <<group_info_cache, _group_info_cache_time, group_members_cache,
                   _group_members_cache_time, _mention_pattern_cache, stored_at>>
    /\ UNCHANGED <<config, memvars, histvars, emojivars, streamvars, outvars>>

\* members_map[name] = member_id on a dict kept as <<name, id>> pairs in
\* insertion order
map_set(members_map, name, member_id) ==
    IF \E i \in 1..Len(members_map) : members_map[i][1] = name
    THEN [i \in 1..Len(members_map) |->
            IF members_map[i][1] = name THEN <<name, member_id>> ELSE members_map[i]]
    ELSE Append(members_map, <<name, member_id>>)

\* the for loop over the items of one page
RECURSIVE add_members(_, _, _)
add_members(st, items, t) ==
    IF items = <<>> THEN st
    ELSE LET member == Head(items) IN
         add_members(
             IF member.member_id # "" /\ member.name # <<>>
             THEN [map |-> map_set(st.map, member.name, member.member_id),
                   uc |-> _set_user_cache(st.uc, member.member_id, member.name, t),
                   set |-> Append(st.set, member)]
             ELSE st,
             Tail(items), t)

\* the while loop over the pages the API answers with; a page is a response
\* (ok, items, has_more) or "raise" when the request raises
RECURSIVE load_pages(_, _, _)
load_pages(st, pages, t) ==
    IF pages = <<>> THEN [st EXCEPT !.done = TRUE]
    ELSE LET page == Head(pages) IN
         IF page.kind = "raise" THEN [st EXCEPT !.raised = TRUE]
         ELSE IF ~page.ok THEN [st EXCEPT !.done = TRUE]
         ELSE LET st1 == add_members([map |-> st.map, uc |-> st.uc, set |-> st.set],
                                     page.items, t)
                  st2 == [st EXCEPT !.map = st1.map, !.uc = st1.uc, !.set = st1.set]
              IN IF page.has_more THEN load_pages(st2, Tail(pages), t)
                 ELSE [st2 EXCEPT !.done = TRUE]

\* _get_group_members on c = [uc, members, times, patterns]: the caches it
\* leaves, the map it returns, whether it came from the cache, the members
\* it put into user_cache
_get_group_members(c, chat_id, t, im, pages) ==
    IF c.members[chat_id].present
       /\ _is_cache_valid(IF c.times[chat_id].present THEN c.times[chat_id].value ELSE 0, t)
    THEN [c |-> c, ret |-> c.members[chat_id].value, hit |-> TRUE, set |-> <<>>,
          cached |-> FALSE]
    ELSE IF ~im
    THEN [c |-> c, ret |-> <<>>, hit |-> FALSE, set |-> <<>>, cached |-> FALSE]
    ELSE LET r == load_pages([map |-> <<>>, uc |-> c.uc, set |-> <<>>,
                              raised |-> FALSE, done |-> FALSE], pages, t)
         IN IF r.raised
            THEN [c |-> [c EXCEPT !.uc = r.uc], ret |-> r.map, hit |-> FALSE,
                  set |-> r.set, cached |-> FALSE]
            ELSE [c |-> [c EXCEPT !.uc = r.uc,
                                  !.members[chat_id] = [present |-> TRUE, value |-> r.map],
                                  !.times[chat_id] = [present |-> TRUE, value |-> t],
                                  !.patterns[chat_id] = no_entry],
                  ret |-> r.map, hit |-> FALSE, set |-> r.set, cached |-> TRUE]

\* the ghost order and the ghost store times after the members in set were
\* put into user_cache at t
RECURSIVE ticked_all(_, _)
ticked_all(order, set) ==
    IF set = <<>> THEN order
    ELSE ticked_all(ticked(order, Head(set).member_id, TRUE), Tail(set))

RECURSIVE noted_all(_, _, _)
noted_all(users, set, t) ==
    IF set = <<>> THEN users
    ELSE noted_all([users EXCEPT ![Head(set).member_id] = [at |-> t, value |-> Head(set).name]],
                   Tail(set), t)

GetGroupMembers(chat_id, im, pages, dt) ==
    /\ now' = now + dt
    /\ LET r == _get_group_members([uc |-> user_cache, members |-> group_members_cache,
                                    times |-> _group_members_cache_time,
                                    patterns |-> _mention_pattern_cache],
                                   chat_id, now', im, pages)
       IN /\ user_cache' = r.c.uc
          /\ group_members_cache' = r.c.members
          /\ _group_members_cache_time' = r.c.times
          /\ _mention_pattern_cache' = r.c.patterns
          /\ uc_order' = ticked_all(uc_order, r.set)
          /\ stored_at' = [stored_at EXCEPT
                             !.user = noted_all(@, r.set, now'),
                             !.members[chat_id] =
                                 IF r.cached THEN [at |-> now', value |-> r.ret] ELSE @]
          /\ lookup' = Lookup("_get_group_members", chat_id, r.ret, r.hit,
                              Evicted(user_cache, r.c.uc, ""))
    /\ ops' = ops + 1
    /\ UNCHANGED <<group_info_cache, _group_info_cache_time>>
    /\ UNCHANGED <<config, memvars, histvars, emojivars, streamvars, outvars>>

\* _get_group_info on c = [info, times]; response is what chat.aget answers:
\* kind "ok" (success with data), "fail" or "raise"
_get_group_info(c, chat_id, t, im, response) ==
    IF c.info[chat_id].present
       /\ _is_cache_valid(IF c.times[chat_id].present THEN c.times[chat_id].value ELSE 0, t)
    THEN [c |-> c, ret |-> c.info[chat_id].value, hit |-> TRUE, cached |-> FALSE]
    ELSE IF ~im
    THEN [c |-> c, ret |-> NoValue, hit |-> FALSE, cached |-> FALSE]
    ELSE IF response.kind = "ok"
    THEN LET group_info == <<response.name, response.description>>
         IN [c |-> [c EXCEPT !.info[chat_id] = [present |-> TRUE, value |-> group_info],
                             !.times[chat_id] = [present |-> TRUE, value |-> t]],
             ret |-> group_info, hit |-> FALSE, cached |-> TRUE]
    ELSE [c |-> c, ret |-> NoValue, hit |-> FALSE, cached |-> FALSE]

GetGroupInfo(chat_id, im, response, dt) ==
    /\ now' = now + dt
    /\ LET r == _get_group_info([info |-> group_info_cache, times |-> _group_info_cache_time],
                                chat_id, now', im, response)
       IN /\ group_info_cache' = r.c.info
          /\ _group_info_cache_time' = r.c.times
          /\ stored_at' = [stored_at EXCEPT
                             !.info[chat_id] =
                                 IF r.cached THEN [at |-> now', value |-> r.ret] ELSE @]
          /\ lookup' = Lookup("_get_group_info", chat_id, r.ret, r.hit, <<>>)
    /\ ops' = ops + 1
    /\ UNCHANGED <<user_cache, group_members_cache, _group_members_cache_time,
                   _mention_pattern_cache, uc_order>>
    /\ UNCHANGED <<config, memvars, histvars, emojivars, streamvars, outvars>>

\* sorted(members_map.keys(), key=len, reverse=True): the names, longest
\* first, equal lengths in map order; the compiled pattern is kept as the
\* list of its alternatives
sorted_names(members_map) ==
    stable_sort([i \in 1..Len(members_map) |-> members_map[i][1]],
                [i \in 1..Len(members_map) |-> <<0 - Len(members_map[i][1]), 0>>])

\* _get_mention_pattern on the pattern cache, whose entries are
\* <<pattern, cache_time>>
_get_mention_pattern(patterns, group_id, members_map, t) ==
    IF patterns[group_id].present /\ _is_cache_valid(patterns[group_id].value[2], t)
    THEN [c |-> patterns, ret |-> patterns[group_id].value[1], hit |-> TRUE,
          cached |-> FALSE]
    ELSE IF members_map = <<>>
    THEN [c |-> patterns, ret |-> NoValue, hit |-> FALSE, cached |-> FALSE]
    ELSE LET pattern == sorted_names(members_map)
         IN [c |-> [patterns EXCEPT ![group_id] =
                                      [present |-> TRUE, value |-> <<pattern, t>>]],
             ret |-> pattern, hit |-> FALSE, cached |-> TRUE]

GetMentionPattern(group_id, members_map, dt) ==
    /\ now' = now + dt
    /\ LET r == _get_mention_pattern(_mention_pattern_cache, group_id, members_map, now')
       IN /\ _mention_pattern_cache' = r.c
          /\ stored_at' = [stored_at EXCEPT
                             !.pattern[group_id] =
                                 IF r.cached THEN [at |-> now', value |-> r.ret] ELSE @]
          /\ lookup' = Lookup("_get_mention_pattern", group_id, r.ret, r.hit, <<>>)
    /\ ops' = ops + 1
    /\ UNCHANGED <<user_cache, group_info_cache, _group_info_cache_time,
                   group_members_cache, _group_members_cache_time, uc_order>>
    /\ UNCHANGED <<config, memvars, histvars, emojivars, streamvars, outvars>>

\* what the chat-members API answers, page by page
member(member_id, name) == [member_id |-> member_id, name |-> name]
page(ok, items, has_more) == [kind |-> "response", ok |-> ok, items |-> items,
                              has_more |-> has_more]
raises == [kind |-> "raise", ok |-> FALSE, items |-> <<>>, has_more |-> FALSE]

MemberPages ==
    { <<page(TRUE, <<member("o1", <<"a">>), member("o2", <<"a", "b">>)>>, TRUE),
        page(TRUE, <<member("o3", <<"a">>)>>, FALSE)>>,
      <<page(TRUE, <<member("o1", <<"a">>), member("", <<"a", "b">>)>>, TRUE),
        page(FALSE, <<>>, FALSE)>>,
      <<page(TRUE, <<member("o2", <<"a", "b">>)>>, TRUE), raises>>,
      <<page(FALSE, <<>>, FALSE)>> }

-----------------------------------------------------------------------------
(* the user cache under inserts, lookups and member loads *)

NextUserCache ==
    \/ /\ ops < MaxUserOps
       /\ \E open_id \in OpenIds : SetUserCache(open_id, <<"a">>, 1)
    \/ /\ ops < MaxUserOps
       /\ \E open_id \in OpenIds, dt \in {1, _CACHE_TTL} : GetUserFromCache(open_id, dt)
    \/ /\ ops < MaxUserOps
       /\ \E pages \in MemberPages : GetGroupMembers("c1", TRUE, pages, 1)

SpecUserCache == Init /\ [][NextUserCache]_vars

\* C11: user_cache never holds more than _USER_CACHE_MAX_SIZE entries,
\* whatever sequence of inserts, lookups and member loads ran
C11_UserCacheBounded == Len(user_cache) <= UserCacheMaxSize

\* a member load has filled the cache and pushed an entry out
C11_Witness ==
    /\ lookup.op = "_get_group_members"
    /\ lookup.evicted # <<>>
    /\ Len(user_cache) = UserCacheMaxSize

\* C13 as stated: the entry an insert evicts was inserted before every
\* entry that stays
C13_EvictsOldestInserted ==
    lookup.op = "_set_user_cache" =>
        \A e \in Range(lookup.evicted) :
            \A o \in CachedIds(user_cache) \ {lookup.key} :
                uc_order.inserted[e] < uc_order.inserted[o]

\* C13: the entry an insert evicts is the least recently used one: its last
\* insertion or cache hit is older than that of every entry that stays
C13_EvictsLeastRecentlyUsed ==
    lookup.op = "_set_user_cache" =>
        \A e \in Range(lookup.evicted) :
            \A o \in CachedIds(user_cache) \ {lookup.key} :
                uc_order.used[e] < uc_order.used[o]

\* the answers of the chat-members API with a page that is unsuccessful or
\* a request that raises
FailedPages ==
    {pages \in MemberPages :
        \E i \in 1..Len(pages) : pages[i].kind = "raise" \/ ~pages[i].ok}

\* C21: a _get_group_members call that goes to the API and gets an
\* unsuccessful response or an exception leaves group_members_cache and its
\* timestamp for the chat as they were
C21_FailureNotCached ==
    [][\A pages \in FailedPages :
          (GetGroupMembers("c1", TRUE, pages, 1) /\ ~lookup'.hit) =>
              /\ group_members_cache'["c1"] = group_members_cache["c1"]
              /\ _group_members_cache_time'["c1"] = _group_members_cache_time["c1"]]_vars

\* an insert evicted an entry while an entry inserted earlier, but served
\* since, stays
C13_Witness ==
    /\ lookup.op = "_set_user_cache"
    /\ \E e \in Range(lookup.evicted) :
          \E o \in CachedIds(user_cache) \ {lookup.key} :
              /\ uc_order.inserted[o] < uc_order.inserted[e]
              /\ uc_order.used[e] < uc_order.used[o]

-----------------------------------------------------------------------------
(* the four caches under the clock *)

MaxTTLOps == 3

response(kind, name, description) ==
    [kind |-> kind, name |-> name, description |-> description]

InfoResponses ==
    {response("ok", "g", "d"), response("ok", "h", "d"),
     response("fail", "", ""), response("raise", "", "")}

MembersMaps == {<<>>, <<<<<<"a">>, "o1">>>>, <<<<<<"a">>, "o1">>, <<<<"a", "b">>, "o2">>>>}

\* a lookup comes one second before, or exactly at, the end of the TTL of
\* what the call before it stored
Ages == {_CACHE_TTL - 1, _CACHE_TTL}

NextTTL ==
    \/ /\ ops < MaxTTLOps
       /\ \E nickname \in Nicknames : SetUserCache("o1", nickname, 1)
    \/ /\ ops < MaxTTLOps
       /\ \E open_id \in {"o1", "o2"}, dt \in Ages : GetUserFromCache(open_id, dt)
    \/ /\ ops < MaxTTLOps
       /\ \E im \in BOOLEAN, r \in InfoResponses, dt \in Ages :
             GetGroupInfo("c1", im, r, dt)
    \/ /\ ops < MaxTTLOps
       /\ \E im \in BOOLEAN, pages \in MemberPages, dt \in Ages :
             GetGroupMembers("c1", im, pages, dt)
    \/ /\ ops < MaxTTLOps
       /\ \E members_map \in MembersMaps, dt \in Ages :
             GetMentionPattern("c1", members_map, dt)

SpecTTL == Init /\ [][NextTTL]_vars

\* what was last stored under the key of a cache call, and when
StoredFor(l) ==
    CASE l.op = "_get_user_from_cache" -> stored_at.user[l.key]
      [] l.op = "_get_group_info" -> stored_at.info[l.key]
      [] l.op = "_get_group_members" -> stored_at.members[l.key]
      [] l.op = "_get_mention_pattern" -> stored_at.pattern[l.key]

\* C12: a lookup of any of the four caches answers from the cache only with
\* the value last stored under the key, stored less than _CACHE_TTL seconds
\* before; a user lookup that does not hit leaves no entry for the id
C12_NoStaleValue ==
    /\ lookup.hit =>
          /\ now - StoredFor(lookup).at < _CACHE_TTL
          /\ lookup.ret = StoredFor(lookup).value
    /\ (lookup.op = "_get_user_from_cache" /\ ~lookup.hit) =>
          lookup.key \notin CachedIds(user_cache)

\* a group's member map was served from the cache one second before its TTL
\* ran out
C12_Witness ==
    /\ lookup.hit
    /\ lookup.op = "_get_group_members"
    /\ now - StoredFor(lookup).at = _CACHE_TTL - 1

-----------------------------------------------------------------------------
(* LarkStreamingCard and patched_send_streaming; in this part the clock     *)
(* counts tenths of a second                                                *)

UPDATE_INTERVAL == 3
MIN_UPDATE_CHARS == 5
_CLEAN_CONTENT_MAX_LEN == 10000

Whitespace == {" ", "\n"}

RECURSIVE lstrip(_)
lstrip(text) ==
    IF text # <<>> /\ Head(text) \in Whitespace THEN lstrip(Tail(text)) ELSE text

RECURSIVE rstrip(_)
rstrip(text) ==
    IF text # <<>> /\ text[Len(text)] \in Whitespace
    THEN rstrip(SubSeq(text, 1, Len(text) - 1)) ELSE text

strip(text) == lstrip(rstrip(text))

\* _clean_content; the texts of the model are no JSON, so that json.loads
\* raises on those that start with "[" and the stripped text is returned
_clean_content(content_str) ==
    IF content_str = <<>> THEN content_str
    ELSE LET stripped == strip(content_str)
         IN IF Len(stripped) > _CLEAN_CONTENT_MAX_LEN THEN stripped
            ELSE IF stripped = <<>> \/ Head(stripped) # "[" THEN stripped
            ELSE stripped

\* LarkCardBuilder.streaming_card(text, is_finished).build(): the elements
\* of the card
streaming_card_content(text, is_finished) ==
    LET elements ==
            (IF text # <<>> THEN <<[tag |-> "markdown", content |-> text]>> ELSE <<>>)
            \o (IF ~is_finished THEN <<[tag |-> "loading", content |-> <<>>]>> ELSE <<>>)
    IN IF elements # <<>> THEN elements ELSE <<[tag |-> "thinking", content |-> <<>>]>>

\* a request to the message API: what was sent, when, and how it ended
Request(kind, message_id, content, outcome, t) ==
    [kind |-> kind, message_id |-> message_id, content |-> content,
     outcome |-> outcome, at |-> t]

\* create_initial_card; outcome is "no_im" when lark_client.im is None, else
\* how areply ends: "ok", "no_data", "fail" or "raise"
create_initial_card(card, reply_to_message_id, outcome, t) ==
    IF outcome = "no_im" THEN [card |-> card, ret |-> FALSE, sent |-> <<>>]
    ELSE LET request == Request("reply", reply_to_message_id,
                                streaming_card_content(<<>>, FALSE), outcome, t)
         IN IF outcome = "ok"
            THEN [card |-> [card EXCEPT !.card_message_id = "card"], ret |-> TRUE,
                  sent |-> <<request>>]
            ELSE [card |-> card, ret |-> FALSE, sent |-> <<request>>]

\* a variant of the throttle test that never holds a patch back
throttled_never(card, text, t) == FALSE

\* time_elapsed < UPDATE_INTERVAL and chars_added < MIN_UPDATE_CHARS
throttled(card, text, t) ==
    /\ t - card._last_update_time < UPDATE_INTERVAL
    /\ Len(text) - card._last_update_length < MIN_UPDATE_CHARS

\* update_card; outcome is how apatch ends: "ok", "fail" or "raise"
update_card(card, text, force, t, outcome) ==
    IF card.card_message_id = None THEN [card |-> card, ret |-> FALSE, sent |-> <<>>]
    ELSE LET card1 == [card EXCEPT !._content_buffer = text]
             request == Request("patch", card.card_message_id,
                                streaming_card_content(text, FALSE), outcome, t)
         IN IF ~force /\ throttled(card1, text, t)
            THEN [card |-> card1, ret |-> TRUE, sent |-> <<>>]
            ELSE IF outcome = "ok"
            THEN [card |-> [card1 EXCEPT !._last_update_time = t,
                                         !._last_update_length = Len(text)],
                  ret |-> TRUE, sent |-> <<request>>]
            ELSE [card |-> card1, ret |-> FALSE, sent |-> <<request>>]

\* finalize_card
finalize_card(card, text, t, outcome) ==
    IF card.card_message_id = None THEN [card |-> card, ret |-> FALSE, sent |-> <<>>]
    ELSE [card |-> card, ret |-> outcome = "ok",
          sent |-> <<Request("patch", card.card_message_id,
                             streaming_card_content(text, TRUE), outcome, t)>>]

\* delete_card
delete_card(card, t, outcome) ==
    IF card.card_message_id = None THEN [card |-> card, ret |-> FALSE, sent |-> <<>>]
    ELSE [card |-> IF outcome = "ok" THEN [card EXCEPT !.card_message_id = None] ELSE card,
          ret |-> outcome = "ok",
          sent |-> <<Request("delete", card.card_message_id, <<>>, outcome, t)>>]

\* a call patched_send_streaming made
Called(fn, arg, r) == [fn |-> fn, arg |-> arg, ret |-> r.ret, sent |-> r.sent # <<>>]

\* a component of a chain: Plain(text), a component with a type attribute,
\* or one without
Plain(text) == [kind |-> "Plain", text |-> text, type |-> <<"P">>]
Image == [kind |-> "typed", text |-> <<>>, type |-> <<"I">>]
Untyped == [kind |-> "untyped", text |-> <<>>, type |-> <<>>]

\* a variant of the accumulation that keeps the text of the last chain only
RECURSIVE last_chain_only(_, _)
last_chain_only(content, chain) ==
    IF chain = <<>> THEN <<>>
    ELSE (IF Head(chain).kind = "Plain" THEN Head(chain).text ELSE <<>>)
         \o last_chain_only(content, Tail(chain))

\* for comp in chain.chain: full_content += ...
RECURSIVE with_chain(_, _)
with_chain(content, chain) ==
    IF chain = <<>> THEN content
    ELSE LET comp == Head(chain)
         IN with_chain(
               IF comp.kind = "Plain" THEN content \o comp.text
               ELSE IF comp.kind = "typed" THEN content \o <<" ", "[">> \o comp.type \o <<"]", " ">>
               ELSE content,
               Tail(chain))

\* chat_id = group_id or get_sender_id()
chat_id_group_only(group_id, sender_id) == group_id
chat_id_of(group_id, sender_id) == IF group_id # "" THEN group_id ELSE sender_id

INTERRUPTED == <<"\n", "\n", "*", "!", "*">>

\* patched_send_streaming up to the async for
SendStreaming(enable_streaming_card, bot, group_id, sender_id, message_id, created, dt) ==
    /\ stream_pc = "idle"
    /\ now' = now + dt
    /\ LET args == [enable_streaming_card |-> enable_streaming_card, bot |-> bot,
                    group_id |-> group_id, sender_id |-> sender_id,
                    message_id |-> message_id, created |-> created]
           entered == Called("patched_send_streaming", args, [ret |-> None, sent |-> <<>>])
           original == Called("_original_lark_send_streaming", received,
                              [ret |-> None, sent |-> <<>>])
           chat_id == chat_id_of(group_id, sender_id)
       IN IF ~enable_streaming_card \/ bot = None \/ chat_id = "" \/ message_id = ""
          THEN /\ calls' = calls \o <<entered, original>>
               /\ stream_pc' = "delegated"
               /\ UNCHANGED <<streaming_card, requests>>
          ELSE LET r == create_initial_card(LarkStreamingCard, message_id, created, now')
               IN /\ streaming_card' = r.card
                  /\ requests' = requests \o r.sent
                  /\ IF r.ret
                     THEN /\ calls' = calls \o <<entered, Called("create_initial_card", <<>>, r)>>
                          /\ stream_pc' = "streaming"
                     ELSE /\ calls' = calls \o <<entered, Called("create_initial_card", <<>>, r),
                                                 original>>
                          /\ stream_pc' = "delegated"
    /\ full_content' = <<>>
    /\ ops' = ops + 1
    /\ UNCHANGED <<received, config, memvars, histvars, emojivars, ctxvars, outvars>>

\* one round of the async for: the generator yields chain; outcome is how
\* the patch ends if update_card sends one
Chunk(chain, outcome, dt) ==
    /\ stream_pc = "streaming"
    /\ now' = now + dt
    /\ received' = Append(received, chain)
    /\ IF chain # <<>>
       THEN LET content == with_chain(full_content, chain)
                r == update_card(streaming_card, content, FALSE, now', outcome)
            IN /\ full_content' = content
               /\ streaming_card' = r.card
               /\ requests' = requests \o r.sent
               /\ calls' = Append(calls, Called("update_card", content, r))
       ELSE UNCHANGED <<full_content, streaming_card, requests, calls>>
    /\ ops' = ops + 1
    /\ UNCHANGED <<stream_pc, config, memvars, histvars, emojivars, ctxvars, outvars>>

\* the except branch: finalize with the interruption mark, or delete
on_exception(card, content, t, outcome) ==
    IF content # <<>>
    THEN LET r == finalize_card(card, content \o INTERRUPTED, t, outcome)
         IN [card |-> r.card, sent |-> r.sent,
             calls |-> <<Called("finalize_card", content \o INTERRUPTED, r)>>]
    ELSE LET r == delete_card(card, t, outcome)
         IN [card |-> r.card, sent |-> r.sent, calls |-> <<Called("delete_card", <<>>, r)>>]

\* the generator is exhausted: clean, finalize or delete, then the base
\* class's send_streaming, which returns or raises
GeneratorEnds(outcome, base_send, outcome2, dt) ==
    /\ stream_pc = "streaming"
    /\ now' = now + dt
    /\ LET content == _clean_content(full_content)
           r == IF strip(content) = <<>>
                THEN delete_card(streaming_card, now', outcome)
                ELSE finalize_card(streaming_card, content, now', outcome)
           call == IF strip(content) = <<>> THEN Called("delete_card", <<>>, r)
                   ELSE Called("finalize_card", content, r)
           e == on_exception(r.card, content, now', outcome2)
       IN /\ full_content' = content
          /\ IF base_send = "raise"
             THEN /\ streaming_card' = e.card
                  /\ requests' = requests \o r.sent \o e.sent
                  /\ calls' = calls \o <<call>> \o e.calls
             ELSE /\ streaming_card' = r.card
                  /\ requests' = requests \o r.sent
                  /\ calls' = Append(calls, call)
    /\ stream_pc' = "completed"
    /\ ops' = ops + 1
    /\ UNCHANGED <<received, config, memvars, histvars, emojivars, ctxvars, outvars>>

\* the generator raises an Exception
GeneratorRaises(outcome, dt) ==
    /\ stream_pc = "streaming"
    /\ now' = now + dt
    /\ LET e == on_exception(streaming_card, full_content, now', outcome)
       IN /\ streaming_card' = e.card
          /\ requests' = requests \o e.sent
          /\ calls' = calls \o e.calls
    /\ stream_pc' = "raised"
    /\ ops' = ops + 1
    /\ UNCHANGED <<full_content, received, config, memvars, histvars, emojivars, ctxvars,
                   outvars>>

Chains == {<<>>, <<Untyped, Plain(<<"a">>)>>, <<Plain(<<" ">>)>>,
           <<Plain(<<"a", "a", "a", "a", "a">>)>>, <<Image>>}

MaxStreamOps == 4

InitStream ==
    /\ now = 10 * UPDATE_INTERVAL
    /\ config = [enable_streaming_card |-> TRUE]
    /\ cache = <<>>
    /\ files = [fp \in FileNames |-> [kind |-> "absent", data |-> NoData]]
    /\ nextId = 1
    /\ origin = <<>>
    /\ last = NoCall
    /\ ops = 0
    /\ HistoryUnused
    /\ EmojiUnused
    /\ ContextUnused
    /\ StreamUnused
    /\ OutputsUnused

NextStream ==
    \/ /\ ops < MaxStreamOps
       /\ \E enable_streaming_card \in BOOLEAN, bot \in {None, "client"},
             group_id \in {"", "c1"}, sender_id \in {"", "o1"}, message_id \in {"", "m1"},
             created \in {"ok", "no_im", "no_data", "fail", "raise"} :
             SendStreaming(enable_streaming_card, bot, group_id, sender_id, message_id,
                           created, 1)
    \/ /\ ops < MaxStreamOps
       /\ \E chain \in Chains, outcome \in {"ok", "fail"}, dt \in {1, UPDATE_INTERVAL} :
             Chunk(chain, outcome, dt)
    \/ /\ ops < MaxStreamOps
       /\ \E outcome \in {"ok", "fail", "raise"}, base_send \in {"ok", "raise"} :
             GeneratorEnds(outcome, base_send, "ok", 1)
    \/ /\ ops < MaxStreamOps
       /\ \E outcome \in {"ok", "raise"} : GeneratorRaises(outcome, 1)

SpecStream == InitStream /\ [][NextStream]_vars

\* the time and text length of the last patch of update_card that
\* succeeded, or those a new card starts with
LastPatched(reqs) ==
    LET ok == {i \in 1..Len(reqs) : reqs[i].kind = "patch" /\ reqs[i].outcome = "ok"}
    IN IF ok = {} THEN [at |-> 0, length |-> 0]
       ELSE LET i == CHOOSE i \in ok : \A j \in ok : j <= i
            IN [at |-> reqs[i].at,
                length |-> Len(reqs[i].content[1].content)]

\* C14: a non-forced update_card sends a patch only if UPDATE_INTERVAL has
\* passed since the last successful patch or the text has grown by
\* MIN_UPDATE_CHARS since then, and otherwise returns True without sending;
\* _last_update_time and _last_update_length change only with a successful patch
C14_Throttle ==
    [][(Len(calls') = Len(calls) + 1 /\ calls'[Len(calls')].fn = "update_card") =>
          LET call == calls'[Len(calls')]
              sent == Len(requests') > Len(requests)
              due == \/ now' - LastPatched(requests).at >= UPDATE_INTERVAL
                     \/ Len(call.arg) - LastPatched(requests).length >= MIN_UPDATE_CHARS
          IN /\ sent => due
             /\ ~due => (~sent /\ call.ret = TRUE)
             /\ (\/ streaming_card'._last_update_time # streaming_card._last_update_time
                 \/ streaming_card'._last_update_length # streaming_card._last_update_length)
                => (sent /\ requests'[Len(requests')].outcome = "ok")]_vars

\* an update_card call after a successful patch was held back and returned True
C14_Witness ==
    /\ calls # <<>>
    /\ calls[Len(calls)].fn = "update_card"
    /\ ~calls[Len(calls)].sent
    /\ calls[Len(calls)].ret = TRUE
    /\ \E i \in 1..Len(requests) : requests[i].kind = "patch" /\ requests[i].outcome = "ok"
    /\ Len(calls[Len(calls)].arg) > LastPatched(requests).length

\* the text the generator has delivered: of every chain with components,
\* the text of its Plain components and a mark for each component with a type
RECURSIVE ChainText(_)
ChainText(chain) ==
    IF chain = <<>> THEN <<>>
    ELSE (CASE Head(chain).kind = "Plain" -> Head(chain).text
            [] Head(chain).kind = "typed" -> <<" ", "[">> \o Head(chain).type \o <<"]", " ">>
            [] OTHER -> <<>>)
         \o ChainText(Tail(chain))

RECURSIVE AllText(_)
AllText(chains) ==
    IF chains = <<>> THEN <<>> ELSE ChainText(Head(chains)) \o AllText(Tail(chains))

Closing == {i \in 1..Len(calls) : calls[i].fn \in {"finalize_card", "delete_card"}}

\* C17: a stream whose card was created ends, whether the generator
\* completes or raises, with a finalize_card or delete_card call; on
\* completion the first such call finalizes with the cleaned text of all
\* chains received, or deletes the card when that text is empty
C17_CardClosed ==
    stream_pc \in {"completed", "raised"} =>
        /\ Closing # {}
        /\ stream_pc = "completed" =>
              LET first == calls[CHOOSE i \in Closing : \A j \in Closing : i <= j]
                  text == _clean_content(AllText(received))
              IN IF text = <<>> THEN first.fn = "delete_card"
                 ELSE first.fn = "finalize_card" /\ first.arg = text

\* a stream completed after the throttle held back its last update: the
\* card was finalized with more text than was ever patched
C17_Witness ==
    /\ stream_pc = "completed"
    /\ \E i \in 1..Len(calls) : calls[i].fn = "update_card" /\ ~calls[i].sent
    /\ \E i \in Closing :
          /\ calls[i].fn = "finalize_card"
          /\ calls[i].sent
          /\ \A j \in 1..Len(calls) :
                (calls[j].fn = "update_card" /\ calls[j].sent)
                    => Len(calls[j].arg) < Len(calls[i].arg)

Originals == {i \in 1..Len(calls) : calls[i].fn = "_original_lark_send_streaming"}

\* the conditions under which the original send_streaming is to be used,
\* on the arguments of the call and the outcome of creating the card
ShouldDelegate(args) ==
    \/ ~args.enable_streaming_card
    \/ args.bot = None
    \/ (args.group_id = "" /\ args.sender_id = "")
    \/ args.message_id = ""
    \/ args.created # "ok"

\* C18: patched_send_streaming calls the original send_streaming, with the
\* generator untouched, exactly when streaming cards are off, the event has
\* no bot, chat id or message id is missing or the card is not created; then
\* it sends no update, finalize or delete; otherwise it never calls it
C18_Delegation ==
    calls # <<>> =>
        /\ Originals # {} <=> ShouldDelegate(calls[1].arg)
        /\ Originals # {} =>
              /\ \A i \in Originals : calls[i].arg = <<>>
              /\ received = <<>>
              /\ \A i \in 1..Len(requests) : requests[i].kind = "reply"
              /\ \A i \in 1..Len(calls) :
                    calls[i].fn \notin {"update_card", "finalize_card", "delete_card"}

\* the card request failed and the stream went to the original send_streaming
C18_Witness ==
    /\ stream_pc = "delegated"
    /\ calls[1].arg.enable_streaming_card
    /\ calls[1].arg.group_id = ""
    /\ calls[1].arg.created = "fail"
    /\ Len(requests) = 1
    /\ Originals # {}

-----------------------------------------------------------------------------
(* file writes that fail, in the history and in the memory store *)

MaxSaveOps == 3

InitSave ==
    /\ now = 2 * _SAVE_DEBOUNCE
    /\ config = [history_inject_count |-> 2, memory_max_per_user |-> 2,
                 memory_max_per_group |-> 2]
    /\ _history_maxlen = 2
    /\ history_file = [kind |-> "absent", data |-> no_records]
    /\ group_history = _load_history(history_file, _history_maxlen)
    /\ appended = history_file.data
    /\ _last_save_time = 0
    /\ _pending_save = FALSE
    /\ written_at = -1
    /\ saves = <<>>
    /\ event = NoEvent
    /\ nextMsg = 1
    /\ cache = <<>>
    /\ files = [fp \in FileNames |-> [kind |-> "absent", data |-> NoData]]
    /\ nextId = 1
    /\ origin = <<>>
    /\ last = NoCall
    /\ ops = 0
    /\ EmojiUnused
    /\ ContextUnused
    /\ StreamUnused
    /\ OutputsUnused

FailedWrites == {"open_fails", "dump_fails"}

NextSave ==
    \/ /\ ops < MaxSaveOps
       /\ \E w \in WriteOutcomes, dt \in {2, 5} : OnMessage(G1, TRUE, TRUE, w, dt)
    \/ /\ ops < MaxSaveOps
       /\ \E w \in WriteOutcomes, reset \in BOOLEAN : OnMessageSent(G1, TRUE, reset, TRUE, w, 2)
    \/ /\ ops < MaxSaveOps
       /\ \E w \in WriteOutcomes : AtExit(w, 2)
    \/ /\ ops < MaxSaveOps
       /\ \E w \in WriteOutcomes : AddMemory(G1, "u1", "fact", <<"a">>, w, 1)
    \/ /\ ops < MaxSaveOps
       /\ \E w \in WriteOutcomes : AddGroupMemory(G1, "meme", <<"A">>, w, 1)
    \/ /\ ops < MaxSaveOps
       /\ \E w \in WriteOutcomes : DeleteMemories(G1, "u1", all, None, w, 1)

SpecSave == InitSave /\ [][NextSave]_vars

\* the memories of user u of group g in memory after a step
MemoriesAfter(g, u) == loaded(cache', files', g).users[u].memories

\* what a history handler leaves when its write failed
HistoryKept ==
    /\ _last_save_time' = _last_save_time
    /\ (\A i \in 1..Len(saves') : saves'[i].attempted) => (_pending_save' = _pending_save)
    /\ \A i \in 1..Len(saves') : saves'[i].attempted => ~saves'[i].wrote
    /\ \A g \in Groups :
          (appended'[g] # <<>> /\ appended'[g] # appended[g]) =>
              (/\ group_history'[g].present
               /\ group_history'[g].items # <<>>
               /\ group_history'[g].items[Len(group_history'[g].items)]
                     = appended'[g][Len(appended'[g])])

\* what add_memory leaves when its write failed
AddedKept ==
    /\ last'.ret = TRUE
    /\ \E i \in 1..Len(MemoriesAfter(G1, "u1")) :
          /\ MemoriesAfter(G1, "u1")[i].content = <<"a">>
          /\ MemoriesAfter(G1, "u1")[i].updated_at = now'

\* what delete_memories leaves when its write failed
DeletedKept ==
    /\ last'.ret = Len(View(G1).users["u1"].memories)
    /\ MemoriesAfter(G1, "u1") = <<>>

\* C15: a handler whose file write fails completes like any other and keeps
\* the new data in memory: a history handler leaves _last_save_time as it
\* was, and _pending_save too unless one of its saves was debounced, and the
\* record it appended is the last of the group's buffer; a memory call
\* returns its result and the cached data hold the memory it added and lack
\* those it deleted
C15_FailedWriteKept ==
    [][/\ (histvars' # histvars /\ event'.w \in FailedWrites) => HistoryKept
       /\ (\E w \in FailedWrites : AddMemory(G1, "u1", "fact", <<"a">>, w, 1)) => AddedKept
       /\ (\E w \in FailedWrites : DeleteMemories(G1, "u1", all, None, w, 1)) => DeletedKept
      ]_vars

\* a memory was added and a message recorded while no write succeeded: both
\* are in memory, neither is on disk, and the save fields are as at the start
C15_Witness ==
    /\ event.op = "on_message"
    /\ event.w \in FailedWrites
    /\ \E i \in 1..Len(saves) : saves[i].attempted /\ ~saves[i].wrote
    /\ Buffer(G1) # <<>>
    /\ history_file.kind # "json"
    /\ _last_save_time = 0
    /\ ~_pending_save
    /\ View(G1).users["u1"].memories # <<>>
    /\ files[_get_file_path(G1)].kind # "json"

-----------------------------------------------------------------------------
(* the lark_save_memory tool, over a store whose file writes may fail *)

MaxToolOps == 2

\* what the tool returns: which message, and for the confirmation the scope
\* description and the content it quotes
Message(msg, scope_desc, content) ==
    [msg |-> msg, scope_desc |-> scope_desc, content |-> content]

Only(msg) == Message(msg, "", <<>>)

valid_types == {"preference", "fact", "instruction", "meme"}
valid_scopes == {"user", "group"}

\* if success: return the confirmation, else the failure message
save_reply(success, scope_desc, content) ==
    IF success THEN Message("saved", scope_desc, content) ELSE Only("save_failed")

\* handle_lark_save_memory: the store it leaves and the message it returns
handle_lark_save_memory(c, f, id, is_lark, group_id, sender_id, memory_type, content, scope, t, w) ==
    IF ~is_lark THEN result(c, f, id, Only("not_lark"))
    ELSE IF ~config.enable_user_memory THEN result(c, f, id, Only("disabled"))
    ELSE IF group_id = <<>> THEN result(c, f, id, Only("group_only"))
    ELSE IF memory_type \notin valid_types THEN result(c, f, id, Only("invalid_type"))
    ELSE IF scope \notin valid_scopes THEN result(c, f, id, Only("invalid_scope"))
    ELSE IF scope = "group"
    THEN LET r == add_group_memory(c, f, id, group_id, memory_type, content,
                                   config.memory_max_per_group, t, w)
         IN [r EXCEPT !.ret = save_reply(r.ret, "group", content)]
    ELSE IF sender_id = "" THEN result(c, f, id, Only("no_sender"))
    ELSE LET r == add_memory(c, f, id, group_id, sender_id, memory_type, content,
                             config.memory_max_per_user, t, w)
         IN [r EXCEPT !.ret = save_reply(r.ret, "user", content)]

HandleLarkSaveMemory(is_lark, group_id, sender_id, memory_type, content, scope, w, dt) ==
    /\ now' = now + dt
    /\ Commit(handle_lark_save_memory(cache, files, nextId, is_lark, group_id,
                                      sender_id, memory_type, content, scope, now', w),
              Call("handle_lark_save_memory", group_id, sender_id, memory_type,
                   content, 0, FALSE))

InitTool ==
    /\ now = 0
    /\ \E e \in BOOLEAN :
          config = [enable_user_memory |-> e, memory_max_per_user |-> 2,
                    memory_max_per_group |-> 2]
    /\ cache = <<>>
    /\ files = [fp \in FileNames |-> [kind |-> "absent", data |-> NoData]]
    /\ nextId = 1
    /\ origin = <<>>
    /\ last = NoCall
    /\ ops = 0
    /\ HistoryUnused
    /\ EmojiUnused
    /\ ContextUnused
    /\ StreamUnused
    /\ OutputsUnused

NextTool ==
    \E is_lark \in BOOLEAN, group_id \in {<<>>, G1}, sender_id \in {"", "u1"},
       memory_type \in {"fact", "other"}, content \in AddContents,
       scope \in {"user", "group", "all"}, w \in WriteOutcomes :
        /\ ops < MaxToolOps
        /\ HandleLarkSaveMemory(is_lark, group_id, sender_id, memory_type,
                                content, scope, w, 1)

SpecTool == InitTool /\ [][NextTool]_vars

\* among the files f, the JSON file of group g holds a memory of the type and
\* content in the list of the scope
InFile(f, g, u, scope_desc, memory_type, content) ==
    LET file == f[_get_file_path(g)]
        memories == IF scope_desc = "group" THEN file.data.group_memories
                    ELSE file.data.users[u].memories
    IN /\ file.kind = "json"
       /\ \E i \in 1..Len(memories) :
             /\ memories[i].type = memory_type
             /\ memories[i].content = content

\* the tool answered with the confirmation
Confirmed(call) == call.op = "handle_lark_save_memory" /\ call.ret.msg = "saved"

\* C23: handle_lark_save_memory returns the confirmation only if the memory
\* is in the group's JSON file afterwards, and when the file write of the
\* call fails it returns the failure message
C23_ConfirmedIsWritten ==
    [][/\ Confirmed(last') =>
            InFile(files', last'.g, last'.u, last'.ret.scope_desc, last'.t, last'.c)
       /\ \A content \in AddContents, scope \in valid_scopes, w \in FailedWrites :
            (/\ config.enable_user_memory
             /\ HandleLarkSaveMemory(TRUE, G1, "u1", "fact", content, scope, w, 1))
                => (last'.ret.msg = "save_failed")
      ]_vars

-----------------------------------------------------------------------------
(* on_llm_request: the history block *)

MaxInjectOps == 3

\* _format_history_sender, on sender ids: the last four characters of the
\* id (the ids of the model other than the bot's have at most four)
_format_history_sender(item) ==
    IF item.sender_id = "" THEN "sender"
    ELSE IF item.sender_id = "__bot__" THEN "sender(ot__)"
    ELSE "sender(id)"

\* the line of a record: its formatted sender and, for its time and
\* content, the record it is made of
history_line(item) == [sender |-> _format_history_sender(item), of |-> item]

\* a variant of the selection that keeps the record of the current message
keep_all(history_list, current_msg_id) == history_list

\* [... for item in history_list if item["msg_id"] != current_msg_id]
filtered_history(history_list, current_msg_id) ==
    SelectIdx(history_list,
              [i \in 1..Len(history_list) |-> history_list[i].msg_id # current_msg_id])

\* the history part of handle_on_llm_request: the lines it injects
recent_history(gh, history_count, group_id, current_msg_id) ==
    IF history_count > 0 /\ group_id # <<>>
    THEN LET history_list == IF gh[group_id].present THEN gh[group_id].items ELSE <<>>
             filtered == filtered_history(history_list, current_msg_id)
             recent == LastN(filtered, history_count)
         IN [i \in 1..Len(recent) |-> history_line(recent[i])]
    ELSE <<>>

OnLlmRequest(is_lark, group_id, message_id, dt) ==
    /\ event.op # "atexit"
    /\ now' = now + dt
    /\ injected' = [done |-> is_lark, at |-> ops + 1, g |-> group_id, msg_id |-> message_id,
                    lines |-> IF is_lark
                              THEN recent_history(group_history, config.history_inject_count,
                                                  group_id, message_id)
                              ELSE <<>>]
    /\ ops' = ops + 1
    /\ UNCHANGED <<decorated, config, memvars, histvars, emojivars, ctxvars, streamvars>>

\* the ids of the messages received so far, and one never recorded
MessageIds == {<<"om", k>> : k \in -1..(nextMsg - 1)}

NextInject ==
    \/ /\ ops < MaxInjectOps
       /\ \E g \in Groups : OnMessage(g, TRUE, TRUE, "ok", 5)
    \/ /\ ops < MaxInjectOps
       /\ \E reset \in BOOLEAN : OnMessageSent(G1, TRUE, reset, TRUE, "ok", 5)
    \/ /\ ops < MaxInjectOps
       /\ \E is_lark \in BOOLEAN, g \in Groups \cup {<<>>}, message_id \in MessageIds :
             OnLlmRequest(is_lark, g, message_id, 1)

SpecInject == InitHist /\ [][NextInject]_vars

\* where a record stands among those recorded for group g
Recorded(g, item) == {k \in 1..Len(appended[g]) : appended[g][k] = item}

\* C16: the history lines on_llm_request injects never include the record
\* of the message being answered, are at most history_inject_count, and
\* stand in the order in which their records were recorded
C16_HistoryBlock ==
    [][(injected'.done /\ injected'.at = ops') =>
          LET lines == injected'.lines
          IN /\ \A i \in 1..Len(lines) : lines[i].of.msg_id # injected'.msg_id
             /\ Len(lines) <= config.history_inject_count
             /\ \A i \in 1..Len(lines) : Recorded(injected'.g, lines[i].of) # {}
             /\ \A i, j \in 1..Len(lines) :
                   i < j => \E k \in Recorded(injected'.g, lines[i].of) :
                               \E l \in Recorded(injected'.g, lines[j].of) : k < l]_vars

\* the message being answered is in the buffer and the block holds the
\* record before it only
C16_Witness ==
    /\ injected.done
    /\ injected.at = ops
    /\ injected.g # <<>>
    /\ \E i \in 1..Len(Buffer(injected.g)) : Buffer(injected.g)[i].msg_id = injected.msg_id
    /\ Len(Buffer(injected.g)) = 2
    /\ Len(injected.lines) = 1

-----------------------------------------------------------------------------
(* on_decorating_result: the conversion of @name to At components *)

MaxDecorateOps == 2

At(qq, name) == [kind |-> "At", qq |-> qq, name |-> name]

\* members_map.get(name)
map_get(members_map, name) ==
    IF \E k \in 1..Len(members_map) : members_map[k][1] = name
    THEN members_map[CHOOSE k \in 1..Len(members_map) : members_map[k][1] = name][2]
    ELSE ""

\* the alternatives of the pattern that match text behind position i, in
\* pattern order
matching(pattern, text, i) ==
    SelectIdx(pattern,
              [k \in 1..Len(pattern) |->
                  /\ i + Len(pattern[k]) <= Len(text)
                  /\ SubSeq(text, i + 1, i + Len(pattern[k])) = pattern[k]])

\* text[from:to] of Python, on 0-based offsets
slice(text, from, to) == SubSeq(text, from + 1, to)

\* for match in pattern.finditer(text), from the 1-based position i on:
\* st = [last_end, segments]
RECURSIVE finditer(_, _, _, _, _)
finditer(st, text, i, pattern, members_map) ==
    IF i > Len(text) THEN st
    ELSE IF text[i] # "@" \/ matching(pattern, text, i) = <<>>
    THEN finditer(st, text, i + 1, pattern, members_map)
    ELSE LET name == matching(pattern, text, i)[1]
             start == i - 1
             end == i + Len(name)
             open_id == map_get(members_map, name)
             before_text == slice(text, st.last_end, start)
             before == IF before_text = <<>> THEN <<>>
                       ELSE IF rstrip(before_text) = <<>> THEN <<Plain(<<>>)>>
                       ELSE <<Plain(rstrip(before_text) \o <<" ">>)>>
         IN IF open_id = ""
            THEN finditer(st, text, end + 1, pattern, members_map)
            ELSE finditer([last_end |-> end,
                           segments |-> st.segments \o before \o <<At(open_id, name)>>],
                          text, end + 1, pattern, members_map)

\* the body of "for comp in result.chain": what the component becomes
segments_of(comp, pattern, members_map) ==
    IF comp.kind # "Plain" THEN <<comp>>
    ELSE LET text == comp.text
             st == finditer([last_end |-> 0, segments |-> <<>>], text, 1, pattern, members_map)
             after_text == lstrip(slice(text, st.last_end, Len(text)))
             segments == st.segments
                         \o (IF st.last_end < Len(text) /\ after_text # <<>>
                             THEN <<Plain(<<" ">> \o after_text)>> ELSE <<>>)
         IN IF segments # <<>> THEN segments ELSE <<comp>>

RECURSIVE Flat(_)
Flat(parts) == IF parts = <<>> THEN <<>> ELSE Head(parts) \o Flat(Tail(parts))

\* handle_on_decorating_result from the enable_mention_convert test on;
\* chain is result.chain as the cleaning loop left it
OnDecoratingResult(chain, enable_mention_convert, lark_client, group_id, pages, dt) ==
    /\ now' = now + dt
    /\ ops' = ops + 1
    /\ LET untouched == [done |-> TRUE, converted |-> FALSE, before |-> chain,
                         parts |-> [i \in 1..Len(chain) |-> <<chain[i]>>],
                         after |-> chain, members_map |-> <<>>]
       IN IF ~enable_mention_convert \/ ~lark_client \/ group_id = ""
          THEN /\ decorated' = untouched
               /\ UNCHANGED ctxvars
          ELSE \E r \in {_get_group_members(
                              [uc |-> user_cache, members |-> group_members_cache,
                               times |-> _group_members_cache_time,
                               patterns |-> _mention_pattern_cache],
                              group_id, now', TRUE, pages)} :
               \E p \in {IF r.ret = <<>>
                         THEN [c |-> r.c.patterns, ret |-> NoValue, hit |-> FALSE,
                               cached |-> FALSE]
                         ELSE _get_mention_pattern(r.c.patterns, group_id, r.ret, now')} :
               LET members_map == r.ret
                   parts == [i \in 1..Len(chain) |-> segments_of(chain[i], p.ret, members_map)]
               IN /\ user_cache' = r.c.uc
                  /\ group_members_cache' = r.c.members
                  /\ _group_members_cache_time' = r.c.times
                  /\ _mention_pattern_cache' = p.c
                  /\ uc_order' = ticked_all(uc_order, r.set)
                  /\ stored_at' = [stored_at EXCEPT
                                     !.user = noted_all(@, r.set, now'),
                                     !.members[group_id] =
                                         IF r.cached THEN [at |-> now', value |-> r.ret] ELSE @,
                                     !.pattern[group_id] =
                                         IF p.cached THEN [at |-> now', value |-> p.ret] ELSE @]
                  /\ lookup' = IF members_map = <<>>
                               THEN Lookup("_get_group_members", group_id, r.ret, r.hit,
                                           Evicted(user_cache, r.c.uc, ""))
                               ELSE Lookup("_get_mention_pattern", group_id, p.ret, p.hit, <<>>)
                  /\ UNCHANGED <<group_info_cache, _group_info_cache_time>>
                  /\ decorated' = IF members_map = <<>> \/ p.ret = NoValue THEN untouched
                                  ELSE [done |-> TRUE, converted |-> TRUE, before |-> chain,
                                        parts |-> parts, after |-> Flat(parts),
                                        members_map |-> members_map]
    /\ UNCHANGED <<injected, config, memvars, histvars, emojivars, streamvars>>

\* texts as the cleaning loop leaves them: stripped
ReplyTexts ==
    {<<>>, <<"a">>, <<"@", "a">>, <<"@", "a", "b">>, <<"@", "b">>,
     <<"b", " ", "@", "a", " ", "b">>}

ReplyChains ==
    {<<Plain(text)>> : text \in ReplyTexts}
    \cup {<<Image>>, <<Plain(<<"a">>), Image, Plain(<<"@", "a">>)>>}

NextDecorate ==
    \/ /\ ops < MaxDecorateOps
       /\ \E chain \in ReplyChains, pages \in MemberPages, dt \in {1, _CACHE_TTL} :
             OnDecoratingResult(chain, TRUE, TRUE, "c1", pages, dt)
    \/ /\ ops < MaxDecorateOps
       /\ \E skip \in {<<FALSE, TRUE, "c1">>, <<TRUE, FALSE, "c1">>, <<TRUE, TRUE, "">>} :
             OnDecoratingResult(<<Plain(<<"@", "a">>)>>, skip[1], skip[2], skip[3],
                                <<>>, 1)

SpecDecorate == Init /\ [][NextDecorate]_vars

\* text holds "@" followed by the name of a member of members_map
Mentions(text, members_map) ==
    \E k \in 1..Len(members_map), i \in 1..Len(text) :
        /\ text[i] = "@"
        /\ i + Len(members_map[k][1]) <= Len(text)
        /\ SubSeq(text, i + 1, i + Len(members_map[k][1])) = members_map[k][1]

\* C20: the conversion leaves every Plain component whose text holds no
\* @name of a group member as it was: the component comes out once, with
\* the same text
C20_PlainUntouched ==
    decorated.done =>
        \A i \in 1..Len(decorated.before) :
            (/\ decorated.before[i].kind = "Plain"
             /\ ~Mentions(decorated.before[i].text, decorated.members_map))
                => decorated.parts[i] = <<decorated.before[i]>>

====
